---- MODULE Spec2Model ----
(***************************************************************************)
(* Result-verification pipeline of the Gmunden transparency database:      *)
(* backend/fact_checker.py (FactChecker) with its SQLite Known-Facts       *)
(* Store.  Candidate results are Python dicts; they are modelled as        *)
(* insertion-ordered sequences of key/value fields.  Confidences are       *)
(* exact decimals counted in millionths (One = 1.0); every factor of the   *)
(* code is a multiple of 0.1 and at most six are multiplied, so the        *)
(* products are exact, and the float comparisons of the code (>= 0.7,      *)
(* > 0.5, >= 0.9, < 1.0) agree with the exact ones on all of them.         *)
(***************************************************************************)
EXTENDS Integers, Sequences, FiniteSets, TLC

VARIABLES
    known_facts_db,      \* "none" (setup failed, attribute is None), "ok", "error" (connected, calls raise)
    verified_facts,      \* rows of table verified_facts, in insertion order
    suspicious_entries,  \* rows of table suspicious_entries, in insertion order
    op,                  \* the last operation
    args,                \* its arguments
    ret,                 \* what it returned
    pre,                 \* the two tables as they were when it started
    nops,                \* number of operations so far
    conc,                \* two batches running at once: their connections and positions
    checks_history       \* checks_history of the quality monitor, oldest first

vars == <<known_facts_db, verified_facts, suspicious_entries, op, args, ret, pre, nops, conc,
          checks_history>>

\* ---------------------------------------------------------------- bounds

MaxOps == 2

MaxBatch == 2

MaxTotal == 20

\* operations in the life of a suspicious entry
MaxLife == 4

\* operations on the quality monitor in one run
MaxChecks == 12

\* ---------------------------------------------------------------- values

\* A Python value: int n, float n.0, or a str made of the words s joined by sep.
IntV(n) == [t |-> "int", n |-> n, s |-> <<>>, sep |-> ""]

FloatV(n) == [t |-> "float", n |-> n, s |-> <<>>, sep |-> ""]

StrV(ws) == [t |-> "str", n |-> 0, s |-> ws, sep |-> " "]

IsoDate(ws) == [t |-> "str", n |-> 0, s |-> ws, sep |-> "-"]

IsNumber(v) == v.t \in {"int", "float"}

\* One field of a dict, and dict access.
F(k, v) == [k |-> k, v |-> v]

Has(result, key) == \E i \in 1..Len(result) : result[i].k = key

Get(result, key) == result[CHOOSE i \in 1..Len(result) : result[i].k = key].v

\* Python truthiness of a value ("if v", "not result[field]").
Truthy(v) == IF IsNumber(v) THEN v.n # 0 ELSE Len(v.s) > 0

RECURSIVE JoinStr(_, _)
JoinStr(ss, sep) ==
    IF Len(ss) = 0 THEN ""
    ELSE IF Len(ss) = 1 THEN ss[1]
    ELSE ss[1] \o sep \o JoinStr(Tail(ss), sep)

\* str(v)
PyStr(v) ==
    IF v.t = "int" THEN ToString(v.n)
    ELSE IF v.t = "float" THEN ToString(v.n) \o ".0"
    ELSE JoinStr(v.s, v.sep)

\* json.dumps of one value
JsonValue(v) == IF IsNumber(v) THEN PyStr(v) ELSE "\"" \o PyStr(v) \o "\""

RECURSIVE JsonItems(_)
JsonItems(d) ==
    IF Len(d) = 0 THEN ""
    ELSE "\"" \o d[1].k \o "\": " \o JsonValue(d[1].v)
         \o (IF Len(d) = 1 THEN "" ELSE ", " \o JsonItems(Tail(d)))

\* json.dumps(d, default=str) of a dict, keys in the order given
JsonDumps(d) == "{" \o JsonItems(d) \o "}"

\* str.lower() on the words of the vocabulary that carry capitals
LowerTable ==
    [w \in {"Strassen", "Gemeinde", "Strassenreparatur", "Wie", "Infrastruktur"} |->
        CASE w = "Strassen" -> "strassen"
          [] w = "Gemeinde" -> "gemeinde"
          [] w = "Strassenreparatur" -> "strassenreparatur"
          [] w = "Wie" -> "wie"
          [] w = "Infrastruktur" -> "infrastruktur"]

Lower(w) == IF w \in DOMAIN LowerTable THEN LowerTable[w] ELSE w

\* re.findall(r'\b\w+\b', str(v).lower()): the words of a value's text.
\* A float n.0 prints as two words, n and 0; a sign is no word character.
WordsOf(v) ==
    IF v.t = "int" THEN {ToString(IF v.n < 0 THEN 0 - v.n ELSE v.n)}
    ELSE IF v.t = "float" THEN {ToString(IF v.n < 0 THEN 0 - v.n ELSE v.n), "0"}
    ELSE {Lower(v.s[i]) : i \in 1..Len(v.s)}

\* len(str(v).lower().strip())
RECURSIVE SumLen(_)
SumLen(ws) == IF Len(ws) = 0 THEN 0 ELSE Len(ws[1]) + SumLen(Tail(ws))

TextLen(v) ==
    IF IsNumber(v) THEN Len(PyStr(v))
    ELSE IF Len(v.s) = 0 THEN 0 ELSE SumLen(v.s) + (Len(v.s) - 1) * Len(v.sep)

\* ----------------------------------------------------------------- rules

\* confidence = 1.0, in millionths
One == 1000000

\* confidence *= f, f a factor in tenths
Mul(confidence, tenths) == (confidence * tenths) \div 10

\* datetime.now().year
CurrentYear == 2026

\* self.valid_ranges
JahrMin == 2000

JahrMax == CurrentYear + 1

BetragMin == 0 - 1000000

BetragMax == 10000000

ValidKategorie ==
    {"infrastruktur", "personal", "kultur", "umwelt",
     "bildung", "soziales", "verwaltung", "sonstiges"}

\* self.plausibility_rules
PlausibilityRules ==
    [c \in {"personal", "infrastruktur", "kultur"} |->
        CASE c = "personal" -> [min_amount |-> 1000, max_amount |-> 500000]
          [] c = "infrastruktur" -> [min_amount |-> 100, max_amount |-> 5000000]
          [] c = "kultur" -> [min_amount |-> 50, max_amount |-> 100000]]

\* Words of the vocabulary that are decimal numerals, with their values.
NumeralValue ==
    [w \in {"1985", "2023", "2026", "2045", "05", "01"} |->
        CASE w = "1985" -> 1985
          [] w = "2023" -> 2023
          [] w = "2026" -> 2026
          [] w = "2045" -> 2045
          [] w = "05" -> 5
          [] w = "01" -> 1]

\* str(v).lower()
LowerText(v) ==
    IF IsNumber(v) THEN PyStr(v)
    ELSE JoinStr([i \in 1..Len(v.s) |-> Lower(v.s[i])], v.sep)

\* int(v) / float(v) succeed on a str that is one numeral
Coercible(v) == IsNumber(v) \/ (Len(v.s) = 1 /\ v.s[1] \in DOMAIN NumeralValue)

\* ---------------------------------------------------------------- checks

\* 1. _check_data_structure: the issues found
CheckDataStructure(result) ==
    LET a == IF ~Has(result, "beschreibung") \/ ~Truthy(Get(result, "beschreibung"))
             THEN <<"Pflichtfeld 'beschreibung' fehlt oder leer">> ELSE <<>>
        b == IF Has(result, "jahr") /\ Truthy(Get(result, "jahr"))
                /\ Get(result, "jahr").t # "int" /\ ~Coercible(Get(result, "jahr"))
             THEN <<"Jahr ist kein gueltiger Integer">> ELSE <<>>
        c == IF Has(result, "betrag")
                /\ ~IsNumber(Get(result, "betrag")) /\ ~Coercible(Get(result, "betrag"))
             THEN <<"Betrag ist keine gueltige Zahl">> ELSE <<>>
    IN  a \o b \o c

\* One numeric field against its range: valid_range[0] <= value <= valid_range[1]
\* raises TypeError when the value is a str.
RangeOf(result, field, lo, hi) ==
    IF ~Has(result, field) THEN [raised |-> FALSE, issues |-> <<>>]
    ELSE LET v == Get(result, field) IN
         IF ~IsNumber(v) THEN [raised |-> TRUE, issues |-> <<>>]
         ELSE IF lo <= v.n /\ v.n <= hi THEN [raised |-> FALSE, issues |-> <<>>]
         ELSE [raised |-> FALSE,
               issues |-> <<field \o " (" \o PyStr(v) \o ") ausserhalb gueltigen Bereichs ("
                            \o ToString(lo) \o ", " \o ToString(hi) \o ")">>]

\* BetragInRange with the ceiling ten times as high
BetragInRangeWide(result) == RangeOf(result, "betrag", BetragMin, 10 * BetragMax)

\* betrag against the ceiling of valid_ranges
BetragInRange(result) == RangeOf(result, "betrag", BetragMin, BetragMax)

\* 2. _check_value_ranges: jahr, betrag, kategorie in the order of valid_ranges
CheckValueRanges(result) ==
    LET j == RangeOf(result, "jahr", JahrMin, JahrMax)
        b == BetragInRange(result)
        k == IF Has(result, "kategorie")
                /\ LowerText(Get(result, "kategorie")) \notin ValidKategorie
             THEN <<"kategorie ('" \o PyStr(Get(result, "kategorie")) \o "') nicht in gueltigen Werten">>
             ELSE <<>>
    IN  IF j.raised \/ b.raised THEN [raised |-> TRUE, issues |-> <<>>]
        ELSE [raised |-> FALSE, issues |-> j.issues \o b.issues \o k]

\* datetime.fromisoformat(datum): the year of a YYYY-MM-DD text, 0 when it does not parse
IsoYear(v) ==
    IF v.t = "str" /\ v.sep = "-" /\ Len(v.s) = 3
       /\ (\A i \in 1..3 : v.s[i] \in DOMAIN NumeralValue)
       /\ Len(v.s[1]) = 4 /\ Len(v.s[2]) = 2 /\ Len(v.s[3]) = 2
    THEN NumeralValue[v.s[1]] ELSE 0

SuspiciousWords == {"fake", "test", "dummy", "beispiel", "placeholder"}

\* "needle in w" on the lower-cased words of the vocabulary: a word holds a needle
\* when it is the needle, or is listed here as holding it inside.
SubstringTable == {<<"testeintrag", "test">>, <<"dummywert", "dummy">>}

Contains(w, needle) == w = needle \/ <<w, needle>> \in SubstringTable

ContainsSuspiciousWord(w) == \E n \in SuspiciousWords : Contains(w, n)

\* 3. _check_plausibility
CheckPlausibility(result) ==
    LET cat == IF Has(result, "kategorie") THEN LowerText(Get(result, "kategorie")) ELSE ""
        ruled == Has(result, "kategorie") /\ Has(result, "betrag")
                 /\ cat \in DOMAIN PlausibilityRules
        amount == Get(result, "betrag")
        raised == ruled /\ ~IsNumber(amount)
        lo == IF ruled /\ ~raised /\ amount.n < PlausibilityRules[cat].min_amount
              THEN <<"Betrag " \o PyStr(amount) \o " zu niedrig fuer Kategorie '" \o cat \o "'">>
              ELSE <<>>
        hi == IF ruled /\ ~raised /\ amount.n > PlausibilityRules[cat].max_amount
              THEN <<"Betrag " \o PyStr(amount) \o " zu hoch fuer Kategorie '" \o cat \o "'">>
              ELSE <<>>
        dt == IF Has(result, "jahr") /\ Has(result, "datum")
                 /\ IsoYear(Get(result, "datum")) # 0
                 /\ (~IsNumber(Get(result, "jahr"))
                     \/ IsoYear(Get(result, "datum")) # Get(result, "jahr").n)
              THEN <<"Jahr " \o PyStr(Get(result, "jahr")) \o " stimmt nicht mit Datum "
                     \o PyStr(Get(result, "datum")) \o " ueberein">>
              ELSE <<>>
        desc == Get(result, "beschreibung")
        short == IF Has(result, "beschreibung") /\ TextLen(desc) < 3
                 THEN <<"Beschreibung zu kurz">> ELSE <<>>
        susp == IF Has(result, "beschreibung")
                   /\ (\E w \in WordsOf(desc) : ContainsSuspiciousWord(w))
                THEN <<"Beschreibung enthaelt verdaechtige Begriffe">> ELSE <<>>
    IN  IF raised THEN [raised |-> TRUE, issues |-> <<>>]
        ELSE [raised |-> FALSE, issues |-> lo \o hi \o dt \o short \o susp]

\* The runs of digits in the JSON text of a value, as numbers.
DigitRuns(v) ==
    IF v.t = "int" THEN {IF v.n < 0 THEN 0 - v.n ELSE v.n}
    ELSE IF v.t = "float" THEN {IF v.n < 0 THEN 0 - v.n ELSE v.n, 0}
    ELSE {NumeralValue[v.s[i]] : i \in {j \in 1..Len(v.s) : v.s[j] \in DOMAIN NumeralValue}}

PowersOfTen == {1, 10, 100, 1000, 10000, 100000, 1000000, 10000000, 100000000}

\* Four consecutive digits of n form a number in lo..hi.
HasWindow(n, lo, hi) ==
    \E p \in PowersOfTen : (n \div p) >= 1000 /\ ((n \div p) % 10000) \in lo..hi

\* [1-9]\d{8,}
LongRun(v) == \E n \in DigitRuns(v) : n >= 100000000

\* -[1-9]\d{7,}
LongNegative(v) == IsNumber(v) /\ v.n <= 0 - 10000000

\* 19[0-8]\d
OldYear(v) == \E n \in DigitRuns(v) : HasWindow(n, 1900, 1989)

\* 19[0-8]\d|20[3-9]\d
OldOrFarYear(v) == OldYear(v) \/ \E n \in DigitRuns(v) : HasWindow(n, 2030, 2099)

\* one of the needles inside the lower-cased text
HoldsWord(v, needles) ==
    v.t = "str" /\ \E w \in WordsOf(v) : \E n \in needles : Contains(w, n)

\* self.suspicious_patterns: key, then anything, then the suspicious part
SuspiciousPatterns ==
    << [key |-> "betrag", kind |-> "long", text |-> "betrag.*[1-9]\\d{8,}"],
       [key |-> "betrag", kind |-> "neg", text |-> "betrag.*-[1-9]\\d{7,}"],
       [key |-> "jahr", kind |-> "year", text |-> "jahr.*(19[0-8]\\d|20[3-9]\\d)"],
       [key |-> "datum", kind |-> "old", text |-> "datum.*19[0-8]\\d"],
       [key |-> "beschreibung", kind |-> "fantasy", text |-> "beschreibung.*(alien|ufo|zeitreise|magie)"],
       [key |-> "beschreibung", kind |-> "magnitude", text |-> "beschreibung.*(milliarde|billion)"],
       [key |-> "kategorie", kind |-> "space", text |-> "kategorie.*(weltraum|mars|mond)"] >>

PartMatches(kind, v) ==
    CASE kind = "long" -> LongRun(v)
      [] kind = "neg" -> LongNegative(v)
      [] kind = "year" -> OldOrFarYear(v)
      [] kind = "old" -> OldYear(v)
      [] kind = "fantasy" -> HoldsWord(v, {"alien", "ufo", "zeitreise", "magie"})
      [] kind = "magnitude" -> HoldsWord(v, {"milliarde", "billion"})
      [] kind = "space" -> HoldsWord(v, {"weltraum", "mars", "mond"})

\* re.search(pattern, json.dumps(result).lower()): the key occurs (in the
\* vocabulary only as a key of the dict) and the part occurs in its value or in a
\* value serialized after it.
PatternMatches(pattern, result) ==
    \E i \in 1..Len(result) :
        /\ result[i].k = pattern.key
        /\ \E j \in i..Len(result) : PartMatches(pattern.kind, result[j].v)

\* 4. _check_suspicious_patterns
CheckSuspiciousPatterns(result) ==
    LET hits == SelectSeq(SuspiciousPatterns, LAMBDA p : PatternMatches(p, result))
    IN  [i \in 1..Len(hits) |-> "Verdaechtiges Muster erkannt: " \o hits[i].text]

\* ----------------------------------------------------------------- inputs

\* "Wie viel gab die Gemeinde 2023 fuer Strassen aus?"
QStrassen == StrV(<<"Wie", "viel", "gab", "die", "Gemeinde", "2023", "fuer", "Strassen", "aus">>)

\* ""
QEmpty == StrV(<<>>)

Queries == {QStrassen, QEmpty}

\* a plausible budget line that shares words with the query
RGemeinde ==
    << F("jahr", IntV(2023)), F("kategorie", StrV(<<"infrastruktur">>)),
       F("beschreibung", StrV(<<"Strassen", "Gemeinde">>)), F("betrag", FloatV(25000)) >>

\* the same line with a date of another year: differs outside the hashed fields
RDatum == RGemeinde \o << F("datum", IsoDate(<<"1985", "05", "01">>)) >>

\* {jahr: 2023, kategorie: infrastruktur, beschreibung: Strassenreparatur, betrag: 25000.0}
RReparatur ==
    << F("jahr", IntV(2023)), F("kategorie", StrV(<<"infrastruktur">>)),
       F("beschreibung", StrV(<<"Strassenreparatur">>)), F("betrag", FloatV(25000)) >>

\* {jahr: 2045, betrag: 5.0, beschreibung: 'x'}
RFuture == << F("jahr", IntV(2045)), F("betrag", FloatV(5)), F("beschreibung", StrV(<<"x">>)) >>

\* a year given as text
RTyped == << F("jahr", StrV(<<"2023">>)), F("beschreibung", StrV(<<"Strassen", "Gemeinde">>)) >>

\* an amount above the ceiling, in no category
RCeiling ==
    << F("jahr", IntV(2023)), F("beschreibung", StrV(<<"Strassen", "Gemeinde">>)),
       F("betrag", IntV(20000000)) >>

\* no category and no amount
RJahr == << F("jahr", IntV(2023)), F("beschreibung", StrV(<<"Strassen", "Gemeinde">>)) >>

\* no description
RNoDesc ==
    << F("jahr", IntV(2023)), F("kategorie", StrV(<<"infrastruktur">>)), F("betrag", FloatV(25000)) >>

\* an amount too low for its category and a one-letter description
RCheap ==
    << F("jahr", IntV(2023)), F("kategorie", StrV(<<"infrastruktur">>)),
       F("beschreibung", StrV(<<"x">>)), F("betrag", FloatV(5)) >>

Results == {RGemeinde, RDatum, RReparatur, RFuture, RTyped, RCeiling, RJahr, RNoDesc, RCheap}

\* the results batches are made of
BatchResults == {RGemeinde, RDatum, RFuture, RTyped, RJahr}

Batches == UNION {[1..n -> BatchResults] : n \in 0..MaxBatch}

\* reasons of a direct flag_suspicious call
FlagIssues == {<<"manuell markiert">>}

\* ----------------------------------------------------- known-facts store

HashFields == <<"jahr", "kategorie", "beschreibung", "betrag">>

\* the keys of the vocabulary in sorted order
KeyOrder == <<"beschreibung", "betrag", "datum", "jahr", "kategorie", "quelle">>

\* hash_data: the hash fields the result has, in the order of hash_fields
HashData(result) ==
    LET present == SelectSeq(HashFields, LAMBDA f : Has(result, f))
    IN  [i \in 1..Len(present) |-> F(present[i], Get(result, present[i]))]

\* sort_keys=True
SortKeys(d) ==
    LET present == SelectSeq(KeyOrder, LAMBDA k : Has(d, k))
    IN  [i \in 1..Len(present) |-> F(present[i], Get(d, present[i]))]

\* _calculate_result_hash; MD5 is taken to be injective on the strings hashed
CalculateResultHash(result) == [md5 |-> JsonDumps(SortKeys(HashData(result)))]

Stopwords == {"der", "die", "das", "und", "oder", "fuer", "von", "mit", "zu", "in", "auf"}

\* 6. _check_query_relevance: TRUE when relevant
CheckQueryRelevance(result, query) ==
    IF query.t # "str" THEN TRUE
    ELSE
      LET query_words == WordsOf(query) \ Stopwords
          result_words ==
              UNION {WordsOf(result[i].v) : i \in {j \in 1..Len(result) : Truthy(result[j].v)}}
                  \ Stopwords
          matches == query_words \cap result_words
      IN  IF query_words = {} THEN TRUE
          ELSE 10 * Cardinality(matches) >= 3 * Cardinality(query_words)

\* What the checks that do not read the store find on a result, its hash and
\* its JSON text.
Analysis(result) ==
    [structural |-> CheckDataStructure(result),
     range |-> CheckValueRanges(result),
     plausibility |-> CheckPlausibility(result),
     pattern |-> CheckSuspiciousPatterns(result),
     hash |-> CalculateResultHash(result),
     json |-> JsonDumps(result)]

\* Analysis, worked out once for the results the operations are given
AnalysisTable == [r \in Results |-> Analysis(r)]

AnalysisOf(result) ==
    IF result \in DOMAIN AnalysisTable THEN AnalysisTable[result] ELSE Analysis(result)

RelevanceTable == [r \in Results, q \in Queries |-> CheckQueryRelevance(r, q)]

RelevanceOf(result, query) ==
    IF <<result, query>> \in DOMAIN RelevanceTable THEN RelevanceTable[result, query]
    ELSE CheckQueryRelevance(result, query)

ResultHash(result) == AnalysisOf(result).hash

\* InsertOrReplace as INSERT OR IGNORE: a row of the same key stays as it is
InsertOrIgnore(table, col, row) ==
    IF \E i \in 1..Len(table) : table[i][col] = row[col] THEN table ELSE table \o <<row>>

\* INSERT OR REPLACE on a table whose column col is UNIQUE
InsertOrReplace(table, col, row) ==
    SelectSeq(table, LAMBDA r : r[col] # row[col]) \o <<row>>

VerificationMethods ==
    <<"structural", "range", "plausibility", "pattern", "consistency", "relevance">>

\* the confidence _store_verified_fact writes, in tenths
StoredConfidence == 9

\* the row _store_verified_fact writes (verification_date, a wall-clock value no
\* code reads, is left out)
VerifiedRow(result, methods) ==
    [fact_hash |-> ResultHash(result),
     fact_data |-> AnalysisOf(result).json,
     verification_method |-> JoinStr(methods, "+"),
     confidence |-> StoredConfidence,
     source |-> "gmunden_fact_checker"]

\* _store_verified_fact
StoreVerifiedFact(result, methods, db) ==
    IF db.conn # "ok" THEN db
    ELSE [db EXCEPT !.verified_facts =
              InsertOrReplace(db.verified_facts, "fact_hash", VerifiedRow(result, methods))]

\* the row _log_suspicious_entry writes: resolved takes its default FALSE
\* (flagged_date is left out)
SuspiciousRow(result, issues) ==
    [entry_hash |-> ResultHash(result),
     entry_data |-> AnalysisOf(result).json,
     suspicion_reason |-> JoinStr(issues, "; "),
     resolved |-> FALSE]

\* LogSuspiciousEntry without its INSERT
LogNothing(result, issues, db) == db

\* _log_suspicious_entry
LogSuspiciousEntry(result, issues, db) ==
    IF db.conn # "ok" THEN db
    ELSE [db EXCEPT !.suspicious_entries =
              InsertOrReplace(db.suspicious_entries, "entry_hash", SuspiciousRow(result, issues))]

\* ClearSuspiciousEntries as DELETE FROM suspicious_entries
ClearByDelete(db) ==
    IF db.conn # "ok" THEN db ELSE [db EXCEPT !.suspicious_entries = <<>>]

\* clear_suspicious_entries: UPDATE suspicious_entries SET resolved = TRUE
ClearSuspiciousEntries(db) ==
    IF db.conn # "ok" THEN db
    ELSE [db EXCEPT !.suspicious_entries =
              [i \in 1..Len(db.suspicious_entries) |->
                  [db.suspicious_entries[i] EXCEPT !.resolved = TRUE]]]

\* FindSimilarFactsConfidence with full confidence for a result that has both fields
FindSimilarFactsConfidenceFull(result) ==
    IF Has(result, "kategorie") /\ Has(result, "jahr") THEN 10
    ELSE IF Has(result, "kategorie") \/ Has(result, "jahr") THEN 6
    ELSE 5

\* _find_similar_facts_confidence, in tenths
FindSimilarFactsConfidence(result) ==
    IF Has(result, "kategorie") /\ Has(result, "jahr") THEN 8
    ELSE IF Has(result, "kategorie") \/ Has(result, "jahr") THEN 6
    ELSE 5

\* CheckConsistencyWithKnownFacts with the two lookups in the other order
ConsistencySuspiciousFirst(result, db) ==
    IF db.conn = "none" THEN [confidence |-> 10, issues |-> <<>>]
    ELSE IF db.conn = "error" THEN [confidence |-> 8, issues |-> <<>>]
    ELSE
      LET h == ResultHash(result)
          verified_fact == SelectSeq(db.verified_facts, LAMBDA r : r.fact_hash = h)
          suspicious_entry ==
              SelectSeq(db.suspicious_entries, LAMBDA r : r.entry_hash = h /\ ~r.resolved)
          similar_confidence == FindSimilarFactsConfidence(result)
      IN  IF Len(suspicious_entry) > 0
          THEN [confidence |-> 3,
                issues |-> <<"Bereits als verdaechtig markiert: "
                             \o suspicious_entry[1].suspicion_reason>>]
          ELSE IF Len(verified_fact) > 0
          THEN [confidence |-> verified_fact[1].confidence, issues |-> <<>>]
          ELSE [confidence |-> similar_confidence,
                issues |-> IF similar_confidence >= 8 THEN <<>>
                           ELSE <<"Keine aehnlichen verifizierten Fakten gefunden">>]

\* CheckConsistencyWithKnownFacts with a lookup that also finds resolved entries
ConsistencyResolvedToo(result, db) ==
    IF db.conn = "none" THEN [confidence |-> 10, issues |-> <<>>]
    ELSE IF db.conn = "error" THEN [confidence |-> 8, issues |-> <<>>]
    ELSE
      LET h == ResultHash(result)
          verified_fact == SelectSeq(db.verified_facts, LAMBDA r : r.fact_hash = h)
          suspicious_entry == SelectSeq(db.suspicious_entries, LAMBDA r : r.entry_hash = h)
          similar_confidence == FindSimilarFactsConfidence(result)
      IN  IF Len(verified_fact) > 0
          THEN [confidence |-> verified_fact[1].confidence, issues |-> <<>>]
          ELSE IF Len(suspicious_entry) > 0
          THEN [confidence |-> 3,
                issues |-> <<"Bereits als verdaechtig markiert: "
                             \o suspicious_entry[1].suspicion_reason>>]
          ELSE [confidence |-> similar_confidence,
                issues |-> IF similar_confidence >= 8 THEN <<>>
                           ELSE <<"Keine aehnlichen verifizierten Fakten gefunden">>]

\* 5. _check_consistency_with_known_facts; confidence in tenths
CheckConsistencyWithKnownFacts(result, db) ==
    IF db.conn = "none" THEN [confidence |-> 10, issues |-> <<>>]
    ELSE IF db.conn = "error" THEN [confidence |-> 8, issues |-> <<>>]
    ELSE
      LET h == ResultHash(result)
          verified_fact == SelectSeq(db.verified_facts, LAMBDA r : r.fact_hash = h)
          suspicious_entry ==
              SelectSeq(db.suspicious_entries, LAMBDA r : r.entry_hash = h /\ ~r.resolved)
          similar_confidence == FindSimilarFactsConfidence(result)
      IN  IF Len(verified_fact) > 0
          THEN [confidence |-> verified_fact[1].confidence, issues |-> <<>>]
          ELSE IF Len(suspicious_entry) > 0
          THEN [confidence |-> 3,
                issues |-> <<"Bereits als verdaechtig markiert: "
                             \o suspicious_entry[1].suspicion_reason>>]
          ELSE [confidence |-> similar_confidence,
                issues |-> IF similar_confidence >= 8 THEN <<>>
                           ELSE <<"Keine aehnlichen verifizierten Fakten gefunden">>]

\* ------------------------------------------------------------ verification

\* confidence factors of the six checks, in tenths
StructuralFactor == 7

RangeFactor == 6

PlausibilityFactor == 8

PatternFactor == 3

\* RelevanceFactor as low as the factor of a suspicious pattern
RelevanceFactorDecisive == PatternFactor

RelevanceFactor == 9

\* thresholds, in millionths
VerifiedThreshold == 700000

KeepThreshold == 500000

StoreThreshold == 900000

MaxIssues == 2

\* IsVerified without the cap on the issues
IsVerifiedByConfidence(confidence, issues) ==
    confidence >= VerifiedThreshold

\* is_verified = confidence >= 0.7 and len(issues) <= 2
IsVerified(confidence, issues) ==
    confidence >= VerifiedThreshold /\ Len(issues) <= MaxIssues

\* ErrorResult with a neutral confidence instead of 0.0
ErrorResultNeutral ==
    [is_verified |-> FALSE,
     confidence |-> 600000,
     source |-> "error",
     verification_method |-> "error",
     issues |-> <<"Verifikationsfehler: '<=' not supported between instances of 'int' and 'str'">>]

\* what the except branch of _verify_single_result returns
ErrorResult ==
    [is_verified |-> FALSE,
     confidence |-> 0,
     source |-> "error",
     verification_method |-> "error",
     issues |-> <<"Verifikationsfehler: '<=' not supported between instances of 'int' and 'str'">>]

\* the product and the issue list built by checks 1 to 6, in their order
\* (a check that passes leaves the confidence as it is: times 10 tenths)
Aggregate(structural, range, plausibility, pattern, consistency, relevant) ==
    LET c1 == Mul(One, IF Len(structural) > 0 THEN StructuralFactor ELSE 10)
        c2 == Mul(c1, IF Len(range) > 0 THEN RangeFactor ELSE 10)
        c3 == Mul(c2, IF Len(plausibility) > 0 THEN PlausibilityFactor ELSE 10)
        c4 == Mul(c3, IF Len(pattern) > 0 THEN PatternFactor ELSE 10)
        c5 == Mul(c4, IF consistency.confidence < 10 THEN consistency.confidence ELSE 10)
        c6 == Mul(c5, IF ~relevant THEN RelevanceFactor ELSE 10)
    IN  [confidence |-> c6,
         issues |-> structural \o range \o plausibility \o pattern
                    \o (IF consistency.confidence < 10 THEN consistency.issues ELSE <<>>)
                    \o (IF ~relevant THEN <<"Ergebnis nicht relevant fuer Anfrage">> ELSE <<>>)]

\* the exception a check raises inside _verify_single_result
Raises(result) ==
    AnalysisOf(result).range.raised \/ AnalysisOf(result).plausibility.raised

\* the decision on the aggregate agg, and the write-through of a verified
\* result of confidence >= 0.9
Decide(result, db, agg) ==
    [fact_check |->
        [is_verified |-> IsVerified(agg.confidence, agg.issues),
         confidence |-> agg.confidence,
         source |-> "gmunden_fact_checker",
         verification_method |-> JoinStr(VerificationMethods, "+"),
         issues |-> agg.issues],
     db |-> IF IsVerified(agg.confidence, agg.issues) /\ agg.confidence >= StoreThreshold
            THEN StoreVerifiedFact(result, VerificationMethods, db)
            ELSE db]

\* _verify_single_result: the FactCheckResult and the store after the call
\* (metadata, which nothing reads, is left out)
VerifySingleResult(result, query, db) ==
    IF Raises(result) THEN [fact_check |-> ErrorResult, db |-> db]
    ELSE Decide(result, db,
                Aggregate(AnalysisOf(result).structural,
                          AnalysisOf(result).range.issues,
                          AnalysisOf(result).plausibility.issues,
                          AnalysisOf(result).pattern,
                          CheckConsistencyWithKnownFacts(result, db),
                          RelevanceOf(result, query)))

\* Tier without the middle branch: whatever is not verified is filtered
TierNoFlag(fact_check) ==
    IF fact_check.is_verified THEN "verified" ELSE "filtered"

\* the branch verify_results takes on a FactCheckResult
Tier(fact_check) ==
    IF fact_check.is_verified THEN "verified"
    ELSE IF fact_check.confidence > KeepThreshold THEN "suspicious"
    ELSE "filtered"

\* result['_fact_check'] of a kept result
FactCheckNote(fact_check) ==
    IF fact_check.is_verified
    THEN [verified |-> TRUE,
          confidence |-> fact_check.confidence,
          verification_method |-> fact_check.verification_method,
          source |-> fact_check.source]
    ELSE [verified |-> FALSE,
          confidence |-> fact_check.confidence,
          issues |-> fact_check.issues,
          warning |-> "Daten nicht vollstaendig verifiziert"]

\* Count that leaves the filtered results uncounted
CountKeptOnly(stats, tier) ==
    IF tier = "filtered" THEN stats ELSE [stats EXCEPT ![tier] = @ + 1]

\* verification_stats[tier] += 1
Count(stats, tier) == [stats EXCEPT ![tier] = @ + 1]

\* the branch of the loop of verify_results on the outcome v of result
Classify(st, result, v) ==
    LET tier == Tier(v.fact_check)
    IN  [verified_results |->
            IF tier = "filtered" THEN st.verified_results
            ELSE Append(st.verified_results,
                        [result |-> result, fact_check |-> FactCheckNote(v.fact_check)]),
         stats |-> Count(st.stats, tier),
         db |-> IF tier = "filtered"
                THEN LogSuspiciousEntry(result, v.fact_check.issues, v.db)
                ELSE v.db,
         fact_checks |-> Append(st.fact_checks, v.fact_check)]

\* one turn of the loop of verify_results on result, from the loop state st
VerifyStep(st, result, query) ==
    Classify(st, result, VerifySingleResult(result, query, st.db))

RECURSIVE VerifyLoop(_, _, _)
VerifyLoop(st, results, query) ==
    IF Len(results) = 0 THEN st
    ELSE VerifyLoop(VerifyStep(st, results[1], query), Tail(results), query)

\* the counts before the loop
NewStats(results) ==
    [total |-> Len(results), verified |-> 0, suspicious |-> 0, filtered |-> 0]

\* counts of a call that made none (the early return on an empty list)
NoStats == [total |-> 0, verified |-> 0, suspicious |-> 0, filtered |-> 0]

\* the end of verify_results: verified_results[0]['verification_stats'] = stats
WithStats(end) ==
    [verified_results |->
        IF Len(end.verified_results) = 0 THEN <<>>
        ELSE << [result |-> end.verified_results[1].result,
                 fact_check |-> end.verified_results[1].fact_check,
                 verification_stats |-> end.stats] >>
             \o Tail(end.verified_results),
     stats |-> end.stats, counted |-> TRUE,
     db |-> end.db, fact_checks |-> end.fact_checks]

\* verify_results: the list returned (verified_results; its first element also
\* carries verification_stats), the counts logged, the FactCheckResult of every
\* input in turn, and the store after the call.  No check of the loop raises past
\* _verify_single_result and _log_suspicious_entry, so the outer except is not taken.
VerifyResults(results, query, db) ==
    IF Len(results) = 0
    THEN [verified_results |-> results, stats |-> NoStats, counted |-> FALSE,
          db |-> db, fact_checks |-> <<>>]
    ELSE WithStats(VerifyLoop([verified_results |-> <<>>, stats |-> NewStats(results),
                               db |-> db, fact_checks |-> <<>>], results, query))

\* ------------------------------------------- src/ai financial validation

MaxSingleExpense == 10000000

ValidCategories ==
    {"infrastruktur", "personal", "verwaltung", "kultur", "soziales", "umwelt", "bildung"}

\* result.get('betrag', 0)
BetragOrZero(result) == IF Has(result, "betrag") THEN Get(result, "betrag") ELSE IntV(0)

\* validate_financial_data: only an amount above the ceiling makes the data
\* invalid; a negative amount and an unknown category are warnings; comparing
\* a betrag that is no number, or lowering a kategorie that is no str, raises
ValidateFinancialData(result) ==
    LET betrag == BetragOrZero(result)
        has_kategorie == Has(result, "kategorie")
    IN  IF ~IsNumber(betrag) \/ (has_kategorie /\ IsNumber(Get(result, "kategorie")))
        THEN [raised |-> TRUE, is_valid |-> FALSE, errors |-> 0, warnings |-> 0]
        ELSE LET kategorie == IF has_kategorie THEN LowerText(Get(result, "kategorie")) ELSE "" IN
             [raised |-> FALSE,
              is_valid |-> ~(betrag.n > MaxSingleExpense),
              errors |-> IF betrag.n > MaxSingleExpense THEN 1 ELSE 0,
              warnings |-> (IF betrag.n < 0 THEN 1 ELSE 0)
                           + (IF kategorie # "" /\ kategorie \notin ValidCategories THEN 1 ELSE 0)]

MinYear == 1990

ProjectWords == {"projekt", "bau", "investition", "sanierung"}

HighAmount == 100000

\* validate_temporal_data: the number of warnings; is_valid is never changed
\* from its first value. A jahr that is no number
\* raises at the comparison. A datum is parsed as %Y-%m-%d, %d.%m.%Y or %Y;
\* of these the values here only take the first and the last form.
ValidateTemporalData(result) ==
    IF Has(result, "jahr") /\ ~IsNumber(Get(result, "jahr"))
    THEN [raised |-> TRUE, is_valid |-> TRUE, warnings |-> 0]
    ELSE [raised |-> FALSE, is_valid |-> TRUE,
          warnings |->
            (IF Has(result, "jahr")
                /\ (Get(result, "jahr").n < MinYear \/ Get(result, "jahr").n > CurrentYear + 1)
             THEN 1 ELSE 0)
            + (IF ~Has(result, "datum") \/ IsNumber(Get(result, "datum")) THEN 0
               ELSE IF IsoYear(Get(result, "datum")) # 0
                    THEN (IF IsoYear(Get(result, "datum")) < MinYear
                             \/ IsoYear(Get(result, "datum")) > CurrentYear THEN 1 ELSE 0)
               ELSE IF Len(Get(result, "datum").s) = 1
                       /\ Get(result, "datum").s[1] \in DOMAIN NumeralValue
                       /\ Len(Get(result, "datum").s[1]) = 4
                    THEN (IF NumeralValue[Get(result, "datum").s[1]] < MinYear
                             \/ NumeralValue[Get(result, "datum").s[1]] > CurrentYear
                          THEN 1 ELSE 0)
               ELSE 1)]

\* validate_consistency: the number of warnings; is_valid stays as it starts.
\* str(jahr) is looked for in
\* str(datum) (a year of four digits can only be one of its parts), and an
\* amount above 100000 wants a project word in the description; lowering a
\* beschreibung that is no str, or comparing a betrag that is no number, raises.
ValidateConsistency(result) ==
    LET both == Has(result, "betrag") /\ Has(result, "beschreibung") IN
    IF both /\ (IsNumber(Get(result, "beschreibung")) \/ ~IsNumber(Get(result, "betrag")))
    THEN [raised |-> TRUE, is_valid |-> TRUE, warnings |-> 0]
    ELSE [raised |-> FALSE, is_valid |-> TRUE,
          warnings |->
            (IF Has(result, "jahr") /\ Has(result, "datum")
                /\ (IF IsNumber(Get(result, "datum"))
                    THEN PyStr(Get(result, "jahr")) # PyStr(Get(result, "datum"))
                    ELSE \A i \in 1..Len(Get(result, "datum").s) :
                            Get(result, "datum").s[i] # PyStr(Get(result, "jahr")))
             THEN 1 ELSE 0)
            + (IF both /\ Get(result, "betrag").n > HighAmount
                  /\ ~\E i \in 1..Len(Get(result, "beschreibung").s), w \in ProjectWords :
                         Contains(Lower(Get(result, "beschreibung").s[i]), w)
               THEN 1 ELSE 0)]

\* verify_single_result of src/ai: only the financial validation decides
\* is_valid, and it is only made of a result that has a betrag; of the
\* financial validation the errors are kept and the warnings are not; the
\* warnings of another validation are kept when it says the data is not valid
AiVerifySingleResult(result) ==
    LET fin == IF Has(result, "betrag") THEN ValidateFinancialData(result)
               ELSE [raised |-> FALSE, is_valid |-> TRUE, errors |-> 0, warnings |-> 0]
        tmp == IF Has(result, "datum") \/ Has(result, "jahr") THEN ValidateTemporalData(result)
               ELSE [raised |-> FALSE, is_valid |-> TRUE, warnings |-> 0]
        con == ValidateConsistency(result)
    IN  [raised |-> fin.raised \/ tmp.raised \/ con.raised,
         is_valid |-> fin.is_valid,
         errors |-> fin.errors,
         warnings |-> (IF tmp.is_valid THEN 0 ELSE tmp.warnings)
                      + (IF con.is_valid THEN 0 ELSE con.warnings)]

\* the one test of the label as score > 90
LabelAbove(score) ==
    IF score > 90 THEN [confidence |-> "high", data_quality |-> "excellent"]
    ELSE IF score >= 70 THEN [confidence |-> "medium", data_quality |-> "good"]
    ELSE [confidence |-> "low", data_quality |-> "questionable"]

\* lines 106-116: the label of a score
Label(score) ==
    IF score >= 90 THEN [confidence |-> "high", data_quality |-> "excellent"]
    ELSE IF score >= 70 THEN [confidence |-> "medium", data_quality |-> "good"]
    ELSE [confidence |-> "low", data_quality |-> "questionable"]

\* int(verified / total * 100): the float quotient times 100, truncated. For
\* every total below 50 this is the exact floor of 100 * verified / total; the
\* first total where the float product falls short of it is 50 (29 of 50 is 57).
Score(verified, total) == (verified * 100) \div total

AiReport(raised, total, verified, warnings, errors, score, label) ==
    [raised |-> raised, total_results |-> total, verified_results |-> verified,
     warnings |-> warnings, errors |-> errors, score |-> score,
     confidence |-> label.confidence, data_quality |-> label.data_quality]

\* the loop of verify_results: warnings and errors are those of the results
\* that are not valid
AiCount(acc, v) ==
    [raised |-> v.raised,
     verified |-> acc.verified + (IF v.is_valid THEN 1 ELSE 0),
     warnings |-> acc.warnings + (IF v.is_valid THEN 0 ELSE v.warnings),
     errors |-> acc.errors + (IF v.is_valid THEN 0 ELSE v.errors)]

RECURSIVE AiLoop(_, _)
AiLoop(results, acc) ==
    IF Len(results) = 0 \/ acc.raised THEN acc
    ELSE AiLoop(Tail(results), AiCount(acc, AiVerifySingleResult(Head(results))))

AiFinish(total, acc) ==
    IF acc.raised
    THEN AiReport(TRUE, total, 0, 0, 0, 0, [confidence |-> "", data_quality |-> ""])
    ELSE AiReport(FALSE, total, acc.verified, acc.warnings, acc.errors,
                  Score(acc.verified, total), Label(Score(acc.verified, total)))

\* verify_results of src/ai: the quality report of a batch; an exception of a
\* validator leaves the call (raised)
AiVerifyResults(results) ==
    IF Len(results) = 0
    THEN AiReport(FALSE, 0, 0, 0, 0, 100, [confidence |-> "low", data_quality |-> "no_data"])
    ELSE AiFinish(Len(results),
                  AiLoop(results, [raised |-> FALSE, verified |-> 0, warnings |-> 0, errors |-> 0]))

\* ------------------------------------------------------- query interpreter

\* A query is a Python str, held as the sequence of its characters, or None.
StrQ(chars) == [t |-> "str", chars |-> chars]

NoneQ == [t |-> "none", chars |-> <<>>]

\* the words queries are made of
TKosten == <<"K", "o", "s", "t", "e", "n">>

TProtokoll == <<"p", "r", "o", "t", "o", "k", "o", "l", "l">>

TSitzungsbericht == <<"s", "i", "t", "z", "u", "n", "g", "s", "b", "e", "r", "i", "c", "h", "t">>

TTrend == <<"t", "r", "e", "n", "d">>

TUebersicht == <<"ü", "b", "e", "r", "s", "i", "c", "h", "t">>

THallo == <<"h", "a", "l", "l", "o">>

T2023 == <<"2", "0", "2", "3">>

T1985 == <<"1", "9", "8", "5">>

T1990 == <<"1", "9", "9", "0">>

T2027 == <<"2", "0", "2", "7">>

T2028 == <<"2", "0", "2", "8">>

TAmount == <<"1", "0", ".", "0", "0", "0", ",", "5", "0">>

TEuroSign == <<"€">>

TLetztes == <<"l", "e", "t", "z", "t", "e", "s">>

TJahr == <<"j", "a", "h", "r">>

TFive == <<"5">>

Tokens ==
    {TKosten, TProtokoll, TSitzungsbericht, TTrend, TUebersicht, THallo, T2023, T1985, T1990, T2027, T2028, TAmount, TEuroSign, TLetztes, TJahr, TFive}

MaxWords == 2

RECURSIVE JoinWords(_)
JoinWords(ws) ==
    IF Len(ws) = 0 THEN <<>>
    ELSE IF Len(ws) = 1 THEN ws[1]
    ELSE ws[1] \o <<" ">> \o JoinWords(Tail(ws))

\* the queries: up to MaxWords words with single blanks between them, two
\* with blanks around them, the empty query and a query that is no str
NlpQueries ==
    {StrQ(JoinWords(ws)) : ws \in UNION {[1..n -> Tokens] : n \in 1..MaxWords}}
    \cup {StrQ(<<" ">> \o TKosten \o <<" ", " ">> \o u \o <<" ">>) : u \in {T2023, TEuroSign}}
    \cup {StrQ(<<>>), NoneQ}

\* whole questions and phrases of a range of years
\* 'Wie viel gab die Gemeinde 2023 für Straßen aus?'
QWieViel ==
    <<"W", "i", "e", " ", "v", "i", "e", "l", " ", "g", "a", "b", " ", "d", "i", "e", " ",
      "G", "e", "m", "e", "i", "n", "d", "e", " ", "2", "0", "2", "3", " ", "f", "ü", "r",
      " ", "S", "t", "r", "a", "ß", "e", "n", " ", "a", "u", "s", "?">>

\* 'zwischen 2020 und 2023'
QBetween ==
    <<"z", "w", "i", "s", "c", "h", "e", "n", " ", "2", "0", "2", "0", " ", "u", "n", "d",
      " ", "2", "0", "2", "3">>

\* 'Kosten 2018 von 2019 bis 2021'
QFromTo ==
    <<"K", "o", "s", "t", "e", "n", " ", "2", "0", "1", "8", " ", "v", "o", "n", " ", "2",
      "0", "1", "9", " ", "b", "i", "s", " ", "2", "0", "2", "1">>

\* 'zwischen 2023 und 2020'
QBackwards ==
    <<"z", "w", "i", "s", "c", "h", "e", "n", " ", "2", "0", "2", "3", " ", "u", "n", "d",
      " ", "2", "0", "2", "0">>

\* 'letztes jahr von 2019 bis 2021'
QLastYear ==
    <<"l", "e", "t", "z", "t", "e", "s", " ", "j", "a", "h", "r", " ", "v", "o", "n", " ",
      "2", "0", "1", "9", " ", "b", "i", "s", " ", "2", "0", "2", "1">>

\* 'von 2020 und 2022'
QMixed ==
    <<"v", "o", "n", " ", "2", "0", "2", "0", " ", "u", "n", "d", " ", "2", "0", "2", "2">>

PhraseQueries == {StrQ(q) : q \in {QWieViel, QBetween, QFromTo, QBackwards, QLastYear, QMixed}}

Digits == {"0", "1", "2", "3", "4", "5", "6", "7", "8", "9"}

DigitValue == [c \in Digits |-> CHOOSE n \in 0..9 : ToString(n) = c]

\* str.lower, letter by letter
LowerLetters ==
    "A" :> "a" @@ "B" :> "b" @@ "C" :> "c" @@ "D" :> "d" @@ "E" :> "e" @@ "F" :> "f" @@ "G" :> "g" @@ "H" :> "h" @@
    "I" :> "i" @@ "J" :> "j" @@ "K" :> "k" @@ "L" :> "l" @@ "M" :> "m" @@ "N" :> "n" @@ "O" :> "o" @@ "P" :> "p" @@
    "Q" :> "q" @@ "R" :> "r" @@ "S" :> "s" @@ "T" :> "t" @@ "U" :> "u" @@ "V" :> "v" @@ "W" :> "w" @@ "X" :> "x" @@
    "Y" :> "y" @@ "Z" :> "z" @@ "Ä" :> "ä" @@ "Ö" :> "ö" @@ "Ü" :> "ü"

LowerChar(c) == IF c \in DOMAIN LowerLetters THEN LowerLetters[c] ELSE c

\* the str of a sequence of characters
RECURSIVE Str(_)
Str(cs) == IF Len(cs) = 0 THEN "" ELSE cs[1] \o Str(Tail(cs))

\* every substring of a str (for Python's "keyword in query")
Substrings(cs) == {Str(SubSeq(cs, i, j)) : i \in 1..Len(cs), j \in 1..Len(cs)}

\* \w of a regular expression on str: letters, digits and the underscore
IsWordChar(c) == c \notin {" ", ".", ",", "€", "&", "?", "%", "/", "-"}

\* \b before position i (1..Len+1) of cs
Boundary(cs, i) ==
    (i > 1 /\ IsWordChar(cs[i - 1])) # (i <= Len(cs) /\ IsWordChar(cs[i]))

\* int() of a str of digits
RECURSIVE IntOf(_)
IntOf(cs) == IF Len(cs) = 0 THEN 0 ELSE IntOf(SubSeq(cs, 1, Len(cs) - 1)) * 10 + DigitValue[cs[Len(cs)]]

\* str.strip
RECURSIVE Strip(_)
Strip(cs) ==
    IF Len(cs) = 0 THEN cs
    ELSE IF cs[1] = " " THEN Strip(Tail(cs))
    ELSE IF cs[Len(cs)] = " " THEN Strip(SubSeq(cs, 1, Len(cs) - 1))
    ELSE cs

\* the replacements of _normalize_query
Replacement(c) ==
    CASE c = "ä" -> <<"a", "e">> [] c = "ö" -> <<"o", "e">> [] c = "ü" -> <<"u", "e">>
      [] c = "ß" -> <<"s", "s">> [] c = "€" -> <<"e", "u", "r", "o">>
      [] c = "&" -> <<"u", "n", "d">> [] OTHER -> <<c>>

RECURSIVE ReplaceAll(_)
ReplaceAll(cs) == IF Len(cs) = 0 THEN <<>> ELSE Replacement(cs[1]) \o ReplaceAll(Tail(cs))

\* re.sub(r'\s+', ' ', s)
RECURSIVE CollapseBlanks(_)
CollapseBlanks(cs) ==
    IF Len(cs) < 2 THEN cs
    ELSE IF cs[1] = " " /\ cs[2] = " " THEN CollapseBlanks(Tail(cs))
    ELSE <<cs[1]>> \o CollapseBlanks(Tail(cs))

LowerChars(cs) == [i \in 1..Len(cs) |-> LowerChar(cs[i])]

\* _normalize_query: lower case, strip, replacements, one blank for many
NormalizeQuery(cs) == CollapseBlanks(ReplaceAll(Strip(LowerChars(cs))))

\* the number of digits of cs from position i on
RECURSIVE DigitRun(_, _)
DigitRun(cs, i) == IF i <= Len(cs) /\ cs[i] \in Digits THEN 1 + DigitRun(cs, i + 1) ELSE 0

\* cs continues at position i with the characters lit
StartsAt(cs, i, lit) == i + Len(lit) - 1 <= Len(cs) /\ SubSeq(cs, i, i + Len(lit) - 1) = lit

\* str.find: the first position (from 1) where lit starts in cs, 0 if nowhere
Find(cs, lit) ==
    IF \E i \in 1..Len(cs) : StartsAt(cs, i, lit)
    THEN CHOOSE i \in 1..Len(cs) : StartsAt(cs, i, lit) /\ \A j \in 1..(i - 1) : ~StartsAt(cs, j, lit)
    ELSE 0

\* the number of groups (?:\.\d{3}) that follow one another from position i on
RECURSIVE GroupRun(_, _)
GroupRun(cs, i) ==
    IF i + 3 <= Len(cs) /\ cs[i] = "." /\ DigitRun(cs, i + 1) >= 3 THEN 1 + GroupRun(cs, i + 4) ELSE 0

\* (?:,\d{2}) at position i
DecimalsAt(cs, i) == i + 2 <= Len(cs) /\ cs[i] = "," /\ DigitRun(cs, i + 1) >= 2

\* The ways \d{1,lead}(?:\.\d{3})*(?:,\d{2})? matches from position i on, as the
\* positions after the match in the order in which the regex engine tries
\* them: most leading digits first, most groups first, decimals before none.
NumberEnds(cs, i, lead) ==
    LET run == DigitRun(cs, i)
        most == IF run < lead THEN run ELSE lead
        \* the ends for d leading digits and g groups
        Tail2(d, g) == IF DecimalsAt(cs, i + d + 4 * g) THEN <<i + d + 4 * g + 3, i + d + 4 * g>>
                       ELSE <<i + d + 4 * g>>
        Groups[d \in 0..most, g \in -1..Len(cs)] ==
            IF g < 0 THEN <<>> ELSE Tail2(d, g) \o Groups[d, g - 1]
        Leads[d \in 0..most] ==
            IF d = 0 THEN <<>> ELSE Groups[d, GroupRun(cs, i + d)] \o Leads[d - 1]
    IN  Leads[most]

\* the first element of ends that is in ok, 0 if none
FirstEnd(ends, ok) ==
    IF \E k \in 1..Len(ends) : ends[k] \in ok
    THEN ends[CHOOSE k \in 1..Len(ends) : ends[k] \in ok /\ \A l \in 1..(k - 1) : ends[l] \notin ok]
    ELSE 0

\* the blanks from position i on
RECURSIVE BlankRun(_, _)
BlankRun(cs, i) == IF i <= Len(cs) /\ cs[i] = " " THEN 1 + BlankRun(cs, i + 1) ELSE 0

CurrencyWords == << <<"e", "u", "r", "o">>, <<"€">>, <<"e", "u", "r">> >>

\* \s*(?:euro|€|eur)\b from position e on (IGNORECASE): the position after
\* the match, 0 if there is none
CurrencyEnd(cs, e) ==
    LET at == e + BlankRun(cs, e)
        fits == {k \in 1..Len(CurrencyWords) :
                    /\ StartsAt(LowerChars(cs), at, CurrencyWords[k])
                    /\ Boundary(cs, at + Len(CurrencyWords[k]))}
    IN  IF fits = {} THEN 0
        ELSE at + Len(CurrencyWords[CHOOSE k \in fits : \A l \in fits : k <= l])

\* patterns['amount'] at position i: the position after group 1, 0 if no match
AmountAt(cs, i) ==
    IF Boundary(cs, i)
    THEN FirstEnd(NumberEnds(cs, i, 3), {e \in 1..(Len(cs) + 1) : CurrencyEnd(cs, e) # 0})
    ELSE 0

\* patterns['amount_simple'] at position i
AmountSimpleAt(cs, i) ==
    IF Boundary(cs, i)
    THEN FirstEnd(NumberEnds(cs, i, Len(cs)), {e \in 1..(Len(cs) + 1) : Boundary(cs, e)})
    ELSE 0

\* patterns['year'] at position i: \b(19|20)\d{2}\b
YearAt(cs, i) ==
    IF Boundary(cs, i) /\ (StartsAt(cs, i, <<"1", "9">>) \/ StartsAt(cs, i, <<"2", "0">>))
       /\ DigitRun(cs, i + 2) >= 2 /\ Boundary(cs, i + 4)
    THEN i + 4 ELSE 0

\* re.findall: the matches from position i on, each as [from, to) of its
\* group 1, where ends[i] is the position after group 1 of a match that
\* starts at i (0: none) and next[i] the position after that whole match
RECURSIVE FindAll(_, _, _, _)
FindAll(n, ends, next, i) ==
    IF i > n THEN <<>>
    ELSE IF ends[i] # 0 THEN <<[from |-> i, to |-> ends[i]]>> \o FindAll(n, ends, next, next[i])
    ELSE FindAll(n, ends, next, i + 1)

Groups(cs, found) == [k \in 1..Len(found) |-> SubSeq(cs, found[k].from, found[k].to - 1)]

\* patterns['year'].findall: the pattern has one group, (19|20), and findall
\* returns what the group matched
YearMatches(cs) ==
    Groups(cs, FindAll(Len(cs), [i \in 1..Len(cs) |-> IF YearAt(cs, i) # 0 THEN i + 2 ELSE 0],
                       [i \in 1..Len(cs) |-> YearAt(cs, i)], 1))

AmountMatches(cs) ==
    Groups(cs, FindAll(Len(cs), [i \in 1..Len(cs) |-> AmountAt(cs, i)],
                       [i \in 1..Len(cs) |-> IF AmountAt(cs, i) = 0 THEN 0
                                             ELSE CurrencyEnd(cs, AmountAt(cs, i))], 1))

AmountSimpleMatches(cs) ==
    Groups(cs, FindAll(Len(cs), [i \in 1..Len(cs) |-> AmountSimpleAt(cs, i)],
                       [i \in 1..Len(cs) |-> AmountSimpleAt(cs, i)], 1))

\* the words of re.findall(r'\b\w+\b', s)
RECURSIVE WordRuns(_)
WordRuns(cs) ==
    IF Len(cs) = 0 THEN <<>>
    ELSE IF ~IsWordChar(cs[1]) THEN WordRuns(Tail(cs))
    ELSE LET n == CHOOSE k \in 1..Len(cs) :
                     /\ \A j \in 1..k : IsWordChar(cs[j])
                     /\ (k = Len(cs) \/ ~IsWordChar(cs[k + 1]))
         IN  <<SubSeq(cs, 1, n)>> \o WordRuns(SubSeq(cs, n + 1, Len(cs)))

\* a set of numbers as the list sorted(..., reverse=True)
RECURSIVE SortedDescending(_)
SortedDescending(ns) ==
    IF ns = {} THEN <<>>
    ELSE LET m == CHOOSE x \in ns : \A y \in ns : y <= x
         IN  <<m>> \o SortedDescending(ns \ {m})

FinanceKeywords ==
    << {"ausgaben", "ausgabe", "kosten", "aufwand", "aufwendungen", "bezahlt", "gezahlt"},
       {"einnahmen", "einnahme", "erlös", "erlöse", "einkommen", "erhalten"},
       {"budget", "haushalt", "etat", "finanzplan"},
       {"betrag", "summe", "höhe", "wert", "euro", "€"} >>

CategoryNames ==
    <<"infrastruktur", "personal", "kultur", "umwelt", "bildung", "soziales", "verwaltung">>

CategoryKeywords ==
    << {"straße", "straßen", "weg", "wege", "brücke", "brücken", "kanal", "kanäle",
        "wasserleitung", "wasserleitungen", "abwasser", "infrastruktur", "bau", "bauten"},
       {"personal", "gehalt", "gehälter", "lohn", "löhne", "mitarbeiter", "angestellte",
        "beamte", "personalkosten"},
       {"kultur", "fest", "feste", "veranstaltung", "veranstaltungen", "museum", "theater",
        "konzert", "konzerte", "stadtfest"},
       {"umwelt", "grün", "grünfläche", "grünflächen", "park", "parks", "baum", "bäume",
        "umweltschutz", "natur"},
       {"schule", "schulen", "bildung", "kindergarten", "kindergärten", "unterricht"},
       {"sozial", "soziales", "hilfe", "unterstützung", "betreuung", "pflege"},
       {"verwaltung", "büro", "amt", "ämter", "rathaus", "gemeinde"} >>

DocumentNames == <<"protokoll", "vertrag", "rechnung", "bericht">>

DocumentKeywords ==
    << {"protokoll", "protokolle", "sitzung", "sitzungen", "gemeinderat", "beschluss", "beschlüsse"},
       {"vertrag", "verträge", "vereinbarung", "vereinbarungen", "kontrakt"},
       {"rechnung", "rechnungen", "beleg", "belege", "quittung", "quittungen"},
       {"bericht", "berichte", "dokumentation", "studie", "studien", "analyse"} >>

StatsKeywords == {"statistik", "übersicht", "zusammenfassung", "entwicklung", "trend", "vergleich"}

ProtocolKeywords == {"protokoll", "sitzung", "beschluss"}

\* the number of the keyword lists that have a keyword in the query
Indicators(lists, subs) == Cardinality({k \in 1..Len(lists) : lists[k] \cap subs # {}})

\* DetectIntent with the most indicators winning, the order deciding ties
DetectIntentByCount(subs) ==
    LET finance == Indicators(FinanceKeywords, subs)
        document == Indicators(DocumentKeywords, subs)
        stats == Cardinality(StatsKeywords \cap subs)
    IN  IF finance >= 1 /\ finance >= document /\ finance >= stats THEN "financial_search"
        ELSE IF document >= 1 /\ document >= stats THEN "document_search"
        ELSE IF stats >= 1 THEN "statistics_search"
        ELSE IF ProtocolKeywords \cap subs # {} THEN "protocol_search"
        ELSE "general_search"

\* _detect_intent, on the substrings of the normalized query
DetectIntent(subs) ==
    IF Indicators(FinanceKeywords, subs) >= 1 THEN "financial_search"
    ELSE IF Indicators(DocumentKeywords, subs) >= 1 THEN "document_search"
    ELSE IF Cardinality(StatsKeywords \cap subs) >= 1 THEN "statistics_search"
    ELSE IF ProtocolKeywords \cap subs # {} THEN "protocol_search"
    ELSE "general_search"

YearFloor == 1990

\* re.search(r'letzte[n]?\s+(\d+)\s+jahre', query): the number, 0 if no match
LastYearsCount(cs) ==
    LET After(i) == i + 6 + (IF StartsAt(cs, i + 6, <<"n">>) /\ BlankRun(cs, i + 7) > 0 THEN 1 ELSE 0)
        Num(i) == After(i) + BlankRun(cs, After(i))
        End(i) == Num(i) + DigitRun(cs, Num(i))
        Hit(i) == /\ StartsAt(cs, i, <<"l", "e", "t", "z", "t", "e">>)
                  /\ BlankRun(cs, After(i)) > 0
                  /\ DigitRun(cs, Num(i)) > 0
                  /\ BlankRun(cs, End(i)) > 0
                  /\ StartsAt(cs, End(i) + BlankRun(cs, End(i)), <<"j", "a", "h", "r", "e">>)
    IN  IF \E i \in 1..Len(cs) : Hit(i)
        THEN LET i == CHOOSE i \in 1..Len(cs) : Hit(i) /\ \A j \in 1..(i - 1) : ~Hit(j)
             IN  IntOf(SubSeq(cs, Num(i), End(i) - 1))
        ELSE 0

\* the years of the relative phrases of _extract_years
RelativeYears(cs, subs) ==
    IF {"letztes jahr", "voriges jahr", "vergangenes jahr"} \cap subs # {} THEN {CurrentYear - 1}
    ELSE IF {"dieses jahr", "aktuelles jahr"} \cap subs # {} THEN {CurrentYear}
    ELSE IF "letzte" \in subs /\ "jahre" \in subs /\ LastYearsCount(cs) > 0
         THEN (CurrentYear - LastYearsCount(cs) + 1)..CurrentYear
    ELSE {}

\* the direct years of _extract_years: int() of every match, kept when in range
DirectYears(matches) ==
    {IntOf(matches[k]) : k \in {k \in 1..Len(matches) :
        YearFloor <= IntOf(matches[k]) /\ IntOf(matches[k]) <= CurrentYear + 1}}

\* _extract_years
ExtractYears(cs, subs) ==
    SortedDescending(DirectYears(YearMatches(cs)) \cup RelativeYears(cs, subs))

\* ParseAmount with the periods left in place
ParseAmountKeepPeriods(cs) ==
    LET points == {i \in 1..Len(cs) : cs[i] \in {",", "."}}
        digits == SelectSeq(cs, LAMBDA c : c \in Digits)
    IN  IF Cardinality(points) > 1 \/ Len(digits) = 0 \/ \E i \in 1..Len(cs) : cs[i] \notin Digits \cup {",", "."}
        THEN [ok |-> FALSE, mant |-> 0, exp |-> 0]
        ELSE [ok |-> TRUE, mant |-> IntOf(digits),
              exp |-> IF points = {} THEN 0 ELSE Len(cs) - (CHOOSE i \in points : TRUE)]

\* float(s.replace('.', '').replace(',', '.')): every period is dropped, the
\* comma becomes the decimal point, and float() takes digits with at most one
\* point (ok; its value is mant / 10^exp, of which the float is the nearest
\* double) and raises ValueError otherwise
ParseAmount(cs) ==
    LET kept == SelectSeq(cs, LAMBDA c : c # ".")
        commas == {i \in 1..Len(kept) : kept[i] = ","}
        digits == SelectSeq(kept, LAMBDA c : c \in Digits)
    IN  IF Cardinality(commas) > 1 \/ Len(digits) = 0 \/ \E i \in 1..Len(kept) : kept[i] \notin Digits \cup {","}
        THEN [ok |-> FALSE, mant |-> 0, exp |-> 0]
        ELSE [ok |-> TRUE, mant |-> IntOf(digits),
              exp |-> IF commas = {} THEN 0 ELSE Len(kept) - (CHOOSE i \in commas : TRUE)]

\* the key an amount gets from the 20 characters before the first place
\* where its text occurs in the query
AmountKey(cs, match, amounts) ==
    LET pos == Find(cs, match)
        before == Substrings(SubSeq(cs, IF pos > 20 THEN pos - 20 ELSE 1, pos - 1))
    IN  IF {"über", "mehr als", "mindestens", "ab"} \cap before # {} THEN "amount_min"
        ELSE IF {"unter", "weniger als", "höchstens", "bis"} \cap before # {} THEN "amount_max"
        ELSE IF "zwischen" \in before
             THEN (IF "amount_min" \notin DOMAIN amounts THEN "amount_min" ELSE "amount_max")
        ELSE "amount"

RECURSIVE AmountLoop(_, _, _)
AmountLoop(cs, matches, amounts) ==
    IF Len(matches) = 0 THEN amounts
    ELSE AmountLoop(cs, Tail(matches),
                    IF ParseAmount(matches[1]).ok
                    THEN (AmountKey(cs, matches[1], amounts) :> ParseAmount(matches[1])) @@ amounts
                    ELSE amounts)

NoEntities == [k \in {} |-> 0]

\* _extract_amounts: the amounts with a currency word if there are any, else
\* every number of the query
ExtractAmounts(cs) ==
    AmountLoop(cs, IF Len(AmountMatches(cs)) > 0 THEN AmountMatches(cs) ELSE AmountSimpleMatches(cs),
               NoEntities)

\* the names of the keyword lists that have a keyword in the query, in order
Named(names, lists, subs) ==
    SelectSeq(names, LAMBDA n : \E k \in 1..Len(names) : names[k] = n /\ lists[k] \cap subs # {})

\* re.search of w1\s+(\d{4})\s+w2\s+(\d{4}): the two years, <<>> if no match
YearPair(cs, w1, w2) ==
    LET A(i) == i + Len(w1) + BlankRun(cs, i + Len(w1))
        B(i) == A(i) + 4 + BlankRun(cs, A(i) + 4)
        C(i) == B(i) + Len(w2) + BlankRun(cs, B(i) + Len(w2))
        Hit(i) == /\ StartsAt(cs, i, w1)
                  /\ BlankRun(cs, i + Len(w1)) > 0 /\ DigitRun(cs, A(i)) >= 4
                  /\ BlankRun(cs, A(i) + 4) > 0 /\ StartsAt(cs, B(i), w2)
                  /\ BlankRun(cs, B(i) + Len(w2)) > 0 /\ DigitRun(cs, C(i)) >= 4
    IN  IF \E i \in 1..Len(cs) : Hit(i)
        THEN LET i == CHOOSE i \in 1..Len(cs) : Hit(i) /\ \A j \in 1..(i - 1) : ~Hit(j)
             IN  <<IntOf(SubSeq(cs, A(i), A(i) + 3)), IntOf(SubSeq(cs, C(i), C(i) + 3))>>
        ELSE <<>>

\* re.search(r'seit\s+(\d{4})', query): the year, 0 if no match
SinceYear(cs) ==
    LET A(i) == i + 4 + BlankRun(cs, i + 4)
        Hit(i) == StartsAt(cs, i, <<"s", "e", "i", "t">>) /\ BlankRun(cs, i + 4) > 0
                  /\ DigitRun(cs, A(i)) >= 4
    IN  IF \E i \in 1..Len(cs) : Hit(i)
        THEN LET i == CHOOSE i \in 1..Len(cs) : Hit(i) /\ \A j \in 1..(i - 1) : ~Hit(j)
             IN  IntOf(SubSeq(cs, A(i), A(i) + 3))
        ELSE 0

\* _extract_time_range
ExtractTimeRange(cs) ==
    LET between == YearPair(cs, <<"z", "w", "i", "s", "c", "h", "e", "n">>, <<"u", "n", "d">>)
        from_to == YearPair(cs, <<"v", "o", "n">>, <<"b", "i", "s">>)
    IN  (IF SinceYear(cs) # 0 THEN "year_min" :> SinceYear(cs) ELSE NoEntities)
        @@ (IF Len(from_to) > 0 THEN "year_range" :> from_to
            ELSE IF Len(between) > 0 THEN "year_range" :> between ELSE NoEntities)

\* _extract_comparisons
ExtractComparisons(subs) ==
    IF {"mehr", "über", "größer", "höher", "mindestens", "ab"} \cap subs # {}
    THEN "comparison_type" :> "greater_than"
    ELSE IF {"weniger", "unter", "kleiner", "niedriger", "höchstens", "bis"} \cap subs # {}
    THEN "comparison_type" :> "less_than"
    ELSE IF {"zwischen", "von", "bis"} \cap subs # {} THEN "comparison_type" :> "between"
    ELSE NoEntities

\* x[0] if len(x) == 1 else x
OneOrAll(xs) == IF Len(xs) = 1 THEN xs[1] ELSE xs

\* _extract_entities
ExtractEntities(cs, subs, years) ==
    ExtractComparisons(subs) @@ ExtractTimeRange(cs)
    @@ (IF Len(Named(DocumentNames, DocumentKeywords, subs)) > 0
        THEN "document_type" :> OneOrAll(Named(DocumentNames, DocumentKeywords, subs)) ELSE NoEntities)
    @@ (IF Len(Named(CategoryNames, CategoryKeywords, subs)) > 0
        THEN "category" :> OneOrAll(Named(CategoryNames, CategoryKeywords, subs)) ELSE NoEntities)
    @@ ExtractAmounts(cs)
    @@ (IF Len(years) > 0 THEN "year" :> OneOrAll(years) ELSE NoEntities)

KeywordStopwords ==
    {"der", "die", "das", "den", "dem", "des", "ein", "eine", "einer", "eines",
     "und", "oder", "aber", "doch", "dann", "also", "noch", "nur", "schon",
     "auch", "sehr", "hier", "dort", "da", "so", "wie", "was", "wenn", "als",
     "bei", "mit", "nach", "vor", "auf", "für", "zu", "an", "von", "in", "im",
     "ist", "sind", "war", "waren", "hat", "haben", "wird", "werden", "kann",
     "könnte", "soll", "sollte", "muss", "müssen", "darf", "dürfen"}

\* a list without the later occurrences of its elements
RECURSIVE Unique(_)
Unique(xs) ==
    IF Len(xs) = 0 THEN <<>>
    ELSE LET init == Unique(SubSeq(xs, 1, Len(xs) - 1))
         IN  IF \E k \in 1..Len(init) : init[k] = xs[Len(xs)] THEN init ELSE Append(init, xs[Len(xs)])

\* _extract_keywords
ExtractKeywords(cs) ==
    Unique([k \in 1..Len(SelectSeq(WordRuns(cs), LAMBDA w : Str(w) \notin KeywordStopwords /\ Len(w) > 2))
              |-> Str(SelectSeq(WordRuns(cs), LAMBDA w : Str(w) \notin KeywordStopwords /\ Len(w) > 2)[k])])

QuestionNames == <<"was", "wie", "wann", "wo", "warum", "wer">>

QuestionKeywords ==
    << {"was", "welche", "welcher", "welches"}, {"wie", "wieviel", "wie viel", "wie viele"},
       {"wann", "ab wann", "bis wann"}, {"wo", "woher", "wohin"},
       {"warum", "weshalb", "wieso"}, {"wer", "wen", "wem"} >>

\* _detect_question_type
DetectQuestionType(subs) ==
    IF Len(Named(QuestionNames, QuestionKeywords, subs)) > 0
    THEN Named(QuestionNames, QuestionKeywords, subs)[1] ELSE "statement"

\* _analyze_temporal_context
AnalyzeTemporalContext(subs, years) ==
    IF Len(years) > 1 THEN "multi_year"
    ELSE IF Len(years) = 1
         THEN (IF years[1] = CurrentYear THEN "current"
               ELSE IF years[1] = CurrentYear - 1 THEN "recent_past" ELSE "historical")
    ELSE IF {"aktuell", "aktueller", "aktuelle", "derzeit", "momentan", "jetzt"} \cap subs # {}
         THEN "current"
    ELSE IF {"letztes", "letzter", "letzte", "vergangen", "vergangenes", "voriges", "vorige"}
               \cap subs # {} THEN "past"
    ELSE "unspecified"

\* _analyze_scope
AnalyzeScope(subs) ==
    IF {"alle", "gesamt", "komplett", "vollständig"} \cap subs # {} THEN "comprehensive"
    ELSE IF {"top", "größte", "höchste", "wichtigste"} \cap subs # {} THEN "top_results"
    ELSE IF {"einzeln", "spezifisch", "bestimmte"} \cap subs # {} THEN "specific"
    ELSE "general"

\* _analyze_specificity, in tenths
AnalyzeSpecificity(entities) ==
    (IF "year" \in DOMAIN entities THEN 3 ELSE 0)
    + (IF "category" \in DOMAIN entities THEN 2 ELSE 0)
    + (IF {"amount", "amount_min", "amount_max"} \cap DOMAIN entities # {} THEN 2 ELSE 0)
    + (IF "document_type" \in DOMAIN entities THEN 2 ELSE 0)
    + (IF Cardinality(DOMAIN entities) > 3 THEN 1 ELSE 0)

Least(a, b) == IF a < b THEN a ELSE b

\* _calculate_confidence, in hundredths
CalculateConfidence(intent, entities, keywords, spacy) ==
    Least(100, 50 + (IF intent # "general_search" THEN 20 ELSE 0)
               + Least(20, Cardinality(DOMAIN entities) * 5)
               + Least(10, Len(keywords) * 2)
               + (IF spacy THEN 10 ELSE 0))

\* the result of analyze_query without an internal error (the timestamp, the
\* time of the call, is left out)
Analyzed(query, cs, subs, entities, years, keywords, spacy) ==
    [original_query |-> query,
     normalized_query |-> Str(cs),
     intent |-> DetectIntent(subs),
     entities |-> entities,
     keywords |-> keywords,
     context |-> [question_type |-> DetectQuestionType(subs),
                  temporal_context |-> AnalyzeTemporalContext(subs, years),
                  scope |-> AnalyzeScope(subs),
                  specificity |-> Least(10, AnalyzeSpecificity(entities))],
     confidence |-> CalculateConfidence(DetectIntent(subs), entities, keywords, spacy)]

Extracted(query, cs, subs, years, spacy) ==
    Analyzed(query, cs, subs, ExtractEntities(cs, subs, years), years, ExtractKeywords(cs), spacy)

\* the result of analyze_query after an exception: query.lower() of a query
\* that is no str raises AttributeError
Degraded(query) ==
    [original_query |-> query,
     intent |-> "general_search",
     entities |-> NoEntities,
     keywords |-> <<query>>,
     confidence |-> 50,
     error |-> "'NoneType' object has no attribute 'lower'"]

\* analyze_query of the backend; spacy: the German spaCy model was loaded
AnalyzeQuery(query, spacy) ==
    IF query.t # "str" THEN Degraded(query)
    ELSE Extracted(query, NormalizeQuery(query.chars), Substrings(NormalizeQuery(query.chars)),
                   ExtractYears(NormalizeQuery(query.chars), Substrings(NormalizeQuery(query.chars))),
                   spacy)

AiIntentNames ==
    <<"search_financial", "search_documents", "search_projects", "search_statistics", "search_general">>

AiIntentPatterns ==
    << {"ausgaben", "kosten", "budget", "geld", "euro", "finanz"},
       {"dokument", "protokoll", "bericht", "datei", "pdf"},
       {"projekt", "bauvorhaben", "maßnahme", "vorhaben"},
       {"statistik", "entwicklung", "trend", "vergleich", "analyse"},
       {"zeige", "finde", "suche", "liste", "übersicht"} >>

\* detect_intent of src/ai: the first intent, in the order of the dict, that
\* has a keyword in the query
AiDetectIntent(subs) ==
    IF Len(Named(AiIntentNames, AiIntentPatterns, subs)) > 0
    THEN Named(AiIntentNames, AiIntentPatterns, subs)[1] ELSE "search_general"

\* time_patterns['jahr_wort']: \b(letztes?\s+jahr|dieses?\s+jahr|voriges?\s+jahr)\b
JahrWortAt(cs, i) ==
    /\ Boundary(cs, i)
    /\ \E stem \in {<<"l", "e", "t", "z", "t", "e">>, <<"d", "i", "e", "s", "e">>,
                    <<"v", "o", "r", "i", "g", "e">>} :
          /\ StartsAt(cs, i, stem)
          /\ \E s1 \in {0, 1} :
                /\ s1 = 1 => StartsAt(cs, i + Len(stem), <<"s">>)
                /\ BlankRun(cs, i + Len(stem) + s1) > 0
                /\ StartsAt(cs, i + Len(stem) + s1 + BlankRun(cs, i + Len(stem) + s1),
                            <<"j", "a", "h", "r">>)
                /\ Boundary(cs, i + Len(stem) + s1 + BlankRun(cs, i + Len(stem) + s1) + 4)

\* time_patterns['zeitraum']: \b(zwischen|von)\s+(\d{4})\s+(und|bis)\s+(\d{4})\b,
\* the two years of the leftmost match, <<>> if there is none
AiZeitraum(cs) ==
    LET Firsts == {<<"z", "w", "i", "s", "c", "h", "e", "n">>, <<"v", "o", "n">>}
        Seconds == {<<"u", "n", "d">>, <<"b", "i", "s">>}
        Hit(i, w1, w2) ==
            /\ Boundary(cs, i)
            /\ StartsAt(cs, i, w1)
            /\ LET a == i + Len(w1) + BlankRun(cs, i + Len(w1))
                   b == a + 4 + BlankRun(cs, a + 4)
                   c == b + Len(w2) + BlankRun(cs, b + Len(w2))
               IN  /\ BlankRun(cs, i + Len(w1)) > 0 /\ DigitRun(cs, a) >= 4
                   /\ BlankRun(cs, a + 4) > 0 /\ StartsAt(cs, b, w2)
                   /\ BlankRun(cs, b + Len(w2)) > 0 /\ DigitRun(cs, c) = 4
                   /\ Boundary(cs, c + 4)
        HitAt(i) == \E w1 \in Firsts, w2 \in Seconds : Hit(i, w1, w2)
    IN  IF \E i \in 1..Len(cs) : HitAt(i)
        THEN LET i == CHOOSE i \in 1..Len(cs) : HitAt(i) /\ \A j \in 1..(i - 1) : ~HitAt(j)
                 w == CHOOSE w \in Firsts \X Seconds : Hit(i, w[1], w[2])
                 a == i + Len(w[1]) + BlankRun(cs, i + Len(w[1]))
                 b == a + 4 + BlankRun(cs, a + 4)
                 c == b + Len(w[2]) + BlankRun(cs, b + Len(w[2]))
             IN  <<IntOf(SubSeq(cs, a, a + 3)), IntOf(SubSeq(cs, c, c + 3))>>
        ELSE <<>>

\* AiExtractYears with the range added to the years found before it
AiExtractYearsAppending(cs, subs) ==
    LET direct == [k \in 1..Len(YearMatches(cs)) |-> IntOf(YearMatches(cs)[k])]
        relative == IF \E i \in 1..Len(cs) : JahrWortAt(cs, i)
                    THEN (IF {"letztes jahr", "voriges jahr"} \cap subs # {} THEN <<CurrentYear - 1>>
                          ELSE IF "dieses jahr" \in subs THEN <<CurrentYear>> ELSE <<>>)
                    ELSE <<>>
        range == AiZeitraum(cs)
    IN  direct \o relative
        \o (IF Len(range) > 0
            THEN [k \in 1..(IF range[2] >= range[1] THEN range[2] - range[1] + 1 ELSE 0) |-> range[1] + k - 1]
            ELSE <<>>)

\* the years of extract_entities of src/ai: int() of what findall returns for
\* the year pattern, the year of a relative phrase, and the range that
\* replaces them
AiExtractYears(cs, subs) ==
    LET direct == [k \in 1..Len(YearMatches(cs)) |-> IntOf(YearMatches(cs)[k])]
        relative == IF \E i \in 1..Len(cs) : JahrWortAt(cs, i)
                    THEN (IF {"letztes jahr", "voriges jahr"} \cap subs # {} THEN <<CurrentYear - 1>>
                          ELSE IF "dieses jahr" \in subs THEN <<CurrentYear>> ELSE <<>>)
                    ELSE <<>>
        range == AiZeitraum(cs)
    IN  IF Len(range) > 0
        THEN [k \in 1..(IF range[2] >= range[1] THEN range[2] - range[1] + 1 ELSE 0) |-> range[1] + k - 1]
        ELSE direct \o relative

\* finance_keywords['kategorien'] of src/ai
AiCategoryNames == <<"infrastruktur", "personal", "verwaltung", "kultur", "soziales">>

AiCategoryKeywords ==
    << {"straße", "straßen", "brücke", "brücken", "kanal", "kanäle", "wasser", "abwasser"},
       {"personal", "gehalt", "gehälter", "lohn", "löhne", "mitarbeiter"},
       {"verwaltung", "büro", "verwaltungskosten", "bürokosten"},
       {"kultur", "veranstaltung", "veranstaltungen", "fest", "feste"},
       {"sozial", "soziales", "hilfe", "unterstützung", "förderung"} >>

\* entities['amounts'] of src/ai is not empty: amount_patterns['euro'],
\* (\d+(?:\.\d{3})*(?:,\d{2})?)\s*€?, matches wherever a digit stands, and the
\* other patterns hold a digit too
AiHasAmounts(cs) == \E i \in 1..Len(cs) : cs[i] \in Digits

\* determine_query_type of src/ai
AiDetermineQueryType(intent, has_amounts) ==
    IF has_amounts \/ intent = "search_financial" THEN "financial"
    ELSE IF intent = "search_documents" THEN "documents"
    ELSE IF intent = "search_projects" THEN "projects"
    ELSE IF intent = "search_statistics" THEN "statistics"
    ELSE "general"

\* parse_amount of src/ai: 0.0 for what float() does not take
AiParseAmount(cs) ==
    IF ParseAmount(cs).ok THEN ParseAmount(cs) ELSE [ok |-> TRUE, mant |-> 0, exp |-> 0]

\* detect_intent and the years of extract_entities of src/ai, both made on
\* query.lower(); lower() of a query that is no str raises AttributeError,
\* which analyze_query of src/ai passes on
AiAnalyzeQuery(query) ==
    IF query.t # "str" THEN [original_query |-> query, raised |-> "AttributeError"]
    ELSE [original_query |-> query,
          intent |-> AiDetectIntent(Substrings(LowerChars(query.chars))),
          years |-> AiExtractYears(LowerChars(query.chars), Substrings(LowerChars(query.chars))),
          categories |-> Named(AiCategoryNames, AiCategoryKeywords, Substrings(LowerChars(query.chars))),
          query_type |-> AiDetermineQueryType(AiDetectIntent(Substrings(LowerChars(query.chars))),
                                              AiHasAmounts(LowerChars(query.chars)))]

\* ------------------------------------------------------------ state machine

Db == [conn |-> known_facts_db,
       verified_facts |-> verified_facts,
       suspicious_entries |-> suspicious_entries]

Snapshot == Db

NoReturn == [verified_results |-> <<>>, stats |-> NoStats, counted |-> FALSE, fact_checks |-> <<>>]

\* a batch that is not running
NoRun == [results |-> <<>>, query |-> QEmpty, i |-> 1, pc |-> "done",
          seen |-> <<>>, fc |-> ErrorResult, dropped |-> <<>>]

NoConc == [shared |-> TRUE, lock |-> 0, overlap |-> FALSE, run |-> <<NoRun, NoRun>>]

\* After construction: _setup_known_facts_db connected ("ok") or failed ("none").
\* The database file outlives the process, so a connected store may already hold
\* a verified fact as _store_verified_fact writes it.
Init ==
    /\ known_facts_db \in {"ok", "none"}
    /\ verified_facts \in
          IF known_facts_db = "ok"
          THEN {<<>>, <<VerifiedRow(RGemeinde, VerificationMethods)>>}
          ELSE {<<>>}
    /\ suspicious_entries = <<>>
    /\ op = "init"
    /\ args = [results |-> <<>>, query |-> QEmpty, issues |-> <<>>]
    /\ ret = NoReturn
    /\ pre = [conn |-> known_facts_db, verified_facts |-> verified_facts,
              suspicious_entries |-> <<>>]
    /\ nops = 0
    /\ checks_history = <<>>
    /\ conc = NoConc

Record(name, a) ==
    /\ op' = name
    /\ args' = a
    /\ pre' = Snapshot
    /\ nops' = nops + 1
    /\ UNCHANGED <<known_facts_db, conc, checks_history>>

\* verify: _verify_single_result
Verify(result, query) ==
    /\ nops < MaxOps
    /\ \E v \in {VerifySingleResult(result, query, Db)} :
         /\ verified_facts' = v.db.verified_facts
         /\ suspicious_entries' = v.db.suspicious_entries
         /\ ret' = [NoReturn EXCEPT !.fact_checks = <<v.fact_check>>]
    /\ Record("verify", [results |-> <<result>>, query |-> query, issues |-> <<>>])

\* verify_batch: verify_results
VerifyBatch(results, query) ==
    /\ nops < MaxOps
    /\ \E v \in {VerifyResults(results, query, Db)} :
         /\ verified_facts' = v.db.verified_facts
         /\ suspicious_entries' = v.db.suspicious_entries
         /\ ret' = [verified_results |-> v.verified_results, stats |-> v.stats,
                    counted |-> v.counted, fact_checks |-> v.fact_checks]
    /\ Record("verify_batch", [results |-> results, query |-> query, issues |-> <<>>])

\* flag_suspicious: _log_suspicious_entry
FlagSuspicious(result, issues) ==
    /\ nops < MaxOps
    /\ \E d \in {LogSuspiciousEntry(result, issues, Db)} :
         /\ verified_facts' = d.verified_facts
         /\ suspicious_entries' = d.suspicious_entries
    /\ ret' = NoReturn
    /\ Record("flag_suspicious", [results |-> <<result>>, query |-> QEmpty, issues |-> issues])

\* resolve_all_suspicious: clear_suspicious_entries
ResolveAllSuspicious ==
    /\ nops < MaxOps
    /\ \E d \in {ClearSuspiciousEntries(Db)} :
         /\ verified_facts' = d.verified_facts
         /\ suspicious_entries' = d.suspicious_entries
    /\ ret' = NoReturn
    /\ Record("resolve_all_suspicious", [results |-> <<>>, query |-> QEmpty, issues |-> <<>>])

\* validate_financial_data of the result checker of src/ai
ValidateFinancial(result) ==
    /\ nops < MaxOps
    /\ ret' = [NoReturn EXCEPT !.fact_checks = <<ValidateFinancialData(result)>>]
    /\ UNCHANGED <<verified_facts, suspicious_entries>>
    /\ Record("validate_financial_data", [results |-> <<result>>, query |-> QEmpty, issues |-> <<>>])

\* the connected store starts to fail: every later call on it raises
DbFails ==
    /\ known_facts_db = "ok"
    /\ known_facts_db' = "error"
    /\ UNCHANGED <<verified_facts, suspicious_entries, op, args, ret, pre, nops, conc, checks_history>>

\* the store works again
DbRecovers ==
    /\ known_facts_db = "error"
    /\ known_facts_db' = "ok"
    /\ UNCHANGED <<verified_facts, suspicious_entries, op, args, ret, pre, nops, conc, checks_history>>

Next ==
    \/ \E result \in Results, query \in Queries : Verify(result, query)
    \/ \E results \in Batches, query \in Queries : VerifyBatch(results, query)
    \/ \E result \in Results, issues \in FlagIssues : FlagSuspicious(result, issues)
    \/ ResolveAllSuspicious
    \/ \E result \in Results : ValidateFinancial(result)
    \/ DbFails
    \/ DbRecovers

Spec == Init /\ [][Next]_vars

\* ------------------------------------------------- fingerprints of pairs

\* a field that may be absent
Opt(key, values) == {<<>>} \cup {<<F(key, v)>> : v \in values}

Reverse(seq) == [i \in 1..Len(seq) |-> seq[Len(seq) + 1 - i]]

\* dicts over the four hashed fields and one more, in two insertion orders;
\* a year as int or str, an amount as float or int
HashInputs ==
    LET forward ==
          {j \o k \o d \o b \o q :
              j \in Opt("jahr", {IntV(2023), StrV(<<"2023">>)}),
              k \in Opt("kategorie", {StrV(<<"infrastruktur">>)}),
              d \in Opt("beschreibung", {StrV(<<"x">>)}),
              b \in Opt("betrag", {FloatV(5), IntV(5)}),
              q \in Opt("quelle", {StrV(<<"a">>)})}
    IN  forward \cup {Reverse(r) : r \in forward}

InitHash == Init /\ known_facts_db = "none"

\* _calculate_result_hash of two results, the first one twice
Fingerprint(a, b) ==
    /\ nops = 0
    /\ nops' = 1
    /\ ret' = [NoReturn EXCEPT !.fact_checks =
                  <<CalculateResultHash(a), CalculateResultHash(b), CalculateResultHash(a)>>]
    /\ op' = "fingerprint"
    /\ args' = [results |-> <<a, b>>, query |-> QEmpty, issues |-> <<>>]
    /\ UNCHANGED <<known_facts_db, verified_facts, suspicious_entries, pre, conc, checks_history>>

NextHash == \E a \in HashInputs, b \in HashInputs : Fingerprint(a, b)

SpecHash == InitHash /\ [][NextHash]_vars

\* ------------------------------------------------------- the quality report

\* a batch of valid results and results above the ceiling, in either order,
\* with possibly a result whose year is text at its end
ScoreBatch(valid, invalid, typed, invalid_first) ==
    [k \in 1..(valid + invalid + typed) |->
        IF k > valid + invalid THEN RTyped
        ELSE IF invalid_first THEN (IF k <= invalid THEN RCeiling ELSE RGemeinde)
        ELSE (IF k <= valid THEN RGemeinde ELSE RCeiling)]

InitScore ==
    /\ known_facts_db = "none"
    /\ verified_facts = <<>>
    /\ suspicious_entries = <<>>
    /\ op = "init"
    /\ ret = NoReturn
    /\ pre = [conn |-> "none", verified_facts |-> <<>>, suspicious_entries |-> <<>>]
    /\ nops = 0
    /\ checks_history = <<>>
    /\ conc = NoConc
    /\ \E valid \in 0..MaxTotal, invalid \in 0..MaxTotal, typed \in 0..1, invalid_first \in BOOLEAN :
          /\ valid + invalid + typed <= MaxTotal
          /\ args = [results |-> ScoreBatch(valid, invalid, typed, invalid_first),
                     query |-> QEmpty, issues |-> <<>>]

\* verify_results of src/ai on the batch
AiVerify ==
    /\ nops = 0
    /\ ret' = [NoReturn EXCEPT !.fact_checks = <<AiVerifyResults(args.results)>>]
    /\ op' = "ai.verify_results"
    /\ nops' = 1
    /\ UNCHANGED <<known_facts_db, verified_facts, suspicious_entries, args, pre, conc, checks_history>>

NextScore == AiVerify

SpecScore == InitScore /\ [][NextScore]_vars

\* ---------------------------------------------------- interpreting queries

\* amounts as they are written, with their value in cents
AmountTable ==
    { <<TAmount, 1000050>>,
      <<<<"1", ".", "2", "3", "4">>, 123400>>,
      <<<<"1", ".", "0", "0", "0", ".", "0", "0", "0", ",", "0", "0">>, 100000000>>,
      <<<<"0", ",", "1", "0">>, 10>>,
      <<<<"9", "9", "9">>, 99900>>,
      <<<<"1", "2", ".", "3", "4", "5", ",", "6", "7">>, 1234567>> }

\* the strings parse_amount is called with: the amounts of the table and
\* strings float() does not take
AmountStrings ==
    {row[1] : row \in AmountTable}
    \cup {<<"1", ",", "2", ",", "3">>, <<>>, <<"1", "0", " ", "€">>}

InitNlp ==
    /\ known_facts_db = "none"
    /\ verified_facts = <<>>
    /\ suspicious_entries = <<>>
    /\ op = "init"
    /\ ret = NoReturn
    /\ pre = [conn |-> "none", verified_facts |-> <<>>, suspicious_entries |-> <<>>]
    /\ nops = 0
    /\ checks_history = <<>>
    /\ conc = NoConc
    /\ \E query \in NlpQueries \cup PhraseQueries \cup {StrQ(row[1]) : row \in AmountTable} :
          args = [results |-> <<>>, query |-> query, issues |-> <<>>]

Interpreted(name, result) ==
    /\ nops = 0
    /\ ret' = [NoReturn EXCEPT !.fact_checks = <<result>>]
    /\ op' = name
    /\ nops' = 1
    /\ UNCHANGED <<known_facts_db, verified_facts, suspicious_entries, pre, conc, checks_history>>

\* analyze_query of the backend, with or without a loaded spaCy model
Analyze(spacy) ==
    /\ Interpreted("analyze_query", AnalyzeQuery(args.query, spacy))
    /\ UNCHANGED args

\* analyze_query of src/ai
AiAnalyze ==
    /\ Interpreted("ai.analyze_query", AiAnalyzeQuery(args.query))
    /\ UNCHANGED args

\* parse_amount of src/ai
ParseAmountCall(amount) ==
    /\ Interpreted("ai.parse_amount", AiParseAmount(amount))
    /\ args' = [args EXCEPT !.query = StrQ(amount)]

NextNlp ==
    \/ \E spacy \in BOOLEAN : Analyze(spacy)
    \/ AiAnalyze
    \/ \E amount \in AmountStrings : ParseAmountCall(amount)

SpecNlp == InitNlp /\ [][NextNlp]_vars

\* ------------------------------------------- two batches at the same time

\* Two calls of verify_results run at once on one database file: either on one
\* FactChecker (conc.shared: one connection, opened with check_same_thread=False,
\* on which a statement of one thread is seen by the other at once and a commit
\* commits what both wrote) or on two (two connections: SQLite lets one
\* connection write at a time, from its INSERT to its commit, lets the others
\* read the committed rows meanwhile, and makes a second writer wait).
\* A batch is at result conc.run[p].i, at one of the database calls of
\* _verify_single_result and verify_results.

ConcResults == {RGemeinde, RDatum, RFuture}

ConcBatches == UNION {[1..n -> ConcResults] : n \in 1..MaxBatch}

\* a suspicious entry of an earlier run that was resolved since
ResolvedRow(result) ==
    [SuspiciousRow(result, <<"manuell markiert">>) EXCEPT !.resolved = TRUE]

StartRun(results) ==
    [results |-> results, query |-> QStrassen, i |-> 1, pc |-> "select_verified",
     seen |-> <<>>, fc |-> ErrorResult, dropped |-> <<>>]

InitConc ==
    /\ known_facts_db = "ok"
    /\ \E seeded \in BOOLEAN :
          /\ verified_facts =
                IF seeded THEN <<VerifiedRow(RGemeinde, VerificationMethods)>> ELSE <<>>
          /\ suspicious_entries = IF seeded THEN <<ResolvedRow(RFuture)>> ELSE <<>>
    /\ op = "init"
    /\ args = [results |-> <<>>, query |-> QEmpty, issues |-> <<>>]
    /\ ret = NoReturn
    /\ pre = [conn |-> "ok", verified_facts |-> verified_facts,
              suspicious_entries |-> suspicious_entries]
    /\ nops = 0
    /\ checks_history = <<>>
    /\ \E shared \in BOOLEAN, b1 \in ConcBatches, b2 \in ConcBatches :
          conc = [shared |-> shared, lock |-> 0, overlap |-> FALSE,
                  run |-> <<StartRun(b1), StartRun(b2)>>]

Other(p) == 3 - p

\* the batch goes on to its next result, or ends
Advance(run) ==
    [run EXCEPT !.i = @ + 1,
                !.pc = IF run.i + 1 > Len(run.results) THEN "done" ELSE "select_verified"]

\* the branch of verify_results on the outcome fc of the result at hand
Route(run, fc) ==
    IF Tier(fc) = "filtered"
    THEN [run EXCEPT !.fc = fc, !.pc = "log_execute",
                     !.dropped = Append(@, run.results[run.i])]
    ELSE Advance([run EXCEPT !.fc = fc])

\* the other batch has begun and is not done
Midway(run) == run.pc # "done" /\ (run.i > 1 \/ run.pc # "select_verified")

Quiet == UNCHANGED <<known_facts_db, op, args, ret, pre, nops, checks_history>>

\* checks 1 to 4 and, unless one of them raised, the first SELECT of
\* _check_consistency_with_known_facts
SelectVerified(p) ==
    /\ conc.run[p].pc = "select_verified"
    /\ conc' = [conc EXCEPT !.run[p] =
                   IF Raises(@.results[@.i]) THEN Route(@, ErrorResult)
                   ELSE [@ EXCEPT !.seen = verified_facts, !.pc = "select_suspicious"]]
    /\ UNCHANGED <<verified_facts, suspicious_entries>>
    /\ Quiet

\* the second SELECT, the relevance check and the decision
SelectSuspicious(p) ==
    /\ conc.run[p].pc = "select_suspicious"
    /\ \E fc \in {VerifySingleResult(conc.run[p].results[conc.run[p].i], conc.run[p].query,
                                      [conn |-> "ok", verified_facts |-> conc.run[p].seen,
                                       suspicious_entries |-> suspicious_entries]).fact_check} :
          conc' = [conc EXCEPT !.run[p] =
                      IF fc.is_verified /\ fc.confidence >= StoreThreshold
                      THEN [@ EXCEPT !.fc = fc, !.pc = "store_execute"]
                      ELSE Route(@, fc)]
    /\ UNCHANGED <<verified_facts, suspicious_entries>>
    /\ Quiet

\* cursor.execute of _store_verified_fact
StoreExecute(p) ==
    /\ conc.run[p].pc = "store_execute"
    /\ conc.shared \/ conc.lock = 0
    /\ verified_facts' =
          IF conc.shared
          THEN InsertOrReplace(verified_facts, "fact_hash",
                               VerifiedRow(conc.run[p].results[conc.run[p].i], VerificationMethods))
          ELSE verified_facts
    /\ conc' = [conc EXCEPT !.run[p].pc = "store_commit",
                            !.lock = IF conc.shared THEN 0 ELSE p]
    /\ UNCHANGED suspicious_entries
    /\ Quiet

\* commit of _store_verified_fact
StoreCommit(p) ==
    /\ conc.run[p].pc = "store_commit"
    /\ verified_facts' =
          IF conc.shared THEN verified_facts
          ELSE InsertOrReplace(verified_facts, "fact_hash",
                               VerifiedRow(conc.run[p].results[conc.run[p].i], VerificationMethods))
    /\ conc' = [conc EXCEPT !.run[p] = Route(@, @.fc), !.lock = 0]
    /\ UNCHANGED suspicious_entries
    /\ Quiet

\* cursor.execute of _log_suspicious_entry
LogExecute(p) ==
    /\ conc.run[p].pc = "log_execute"
    /\ conc.shared \/ conc.lock = 0
    /\ suspicious_entries' =
          IF conc.shared
          THEN InsertOrReplace(suspicious_entries, "entry_hash",
                               SuspiciousRow(conc.run[p].results[conc.run[p].i], conc.run[p].fc.issues))
          ELSE suspicious_entries
    /\ conc' = [conc EXCEPT !.run[p].pc = "log_commit",
                            !.lock = IF conc.shared THEN 0 ELSE p,
                            !.overlap = @ \/ Midway(conc.run[Other(p)])]
    /\ UNCHANGED verified_facts
    /\ Quiet

\* commit of _log_suspicious_entry
LogCommit(p) ==
    /\ conc.run[p].pc = "log_commit"
    /\ suspicious_entries' =
          IF conc.shared THEN suspicious_entries
          ELSE InsertOrReplace(suspicious_entries, "entry_hash",
                               SuspiciousRow(conc.run[p].results[conc.run[p].i], conc.run[p].fc.issues))
    /\ conc' = [conc EXCEPT !.run[p] = Advance(@), !.lock = 0]
    /\ UNCHANGED verified_facts
    /\ Quiet

NextConc ==
    \E p \in 1..2 :
        \/ SelectVerified(p)
        \/ SelectSuspicious(p)
        \/ StoreExecute(p)
        \/ StoreCommit(p)
        \/ LogExecute(p)
        \/ LogCommit(p)

SpecConc == InitConc /\ [][NextConc]_vars

\* ------------------------------------------- the life of a suspicious entry
\* Longer runs of verify, verify_batch and resolve_all_suspicious on a few
\* results: a result is dropped and logged, verified again, resolved, and
\* dropped anew.

LifeResults == {RGemeinde, RDatum, RFuture}

LifeBatches == UNION {[1..n -> LifeResults] : n \in 1..MaxBatch}

\* verify: _verify_single_result
LifeVerify(result) ==
    /\ nops < MaxLife
    /\ \E v \in {VerifySingleResult(result, QEmpty, Db)} :
         /\ verified_facts' = v.db.verified_facts
         /\ suspicious_entries' = v.db.suspicious_entries
         /\ ret' = [NoReturn EXCEPT !.fact_checks = <<v.fact_check>>]
    /\ Record("verify", [results |-> <<result>>, query |-> QEmpty, issues |-> <<>>])

\* verify_batch: verify_results
LifeVerifyBatch(results) ==
    /\ nops < MaxLife
    /\ \E v \in {VerifyResults(results, QEmpty, Db)} :
         /\ verified_facts' = v.db.verified_facts
         /\ suspicious_entries' = v.db.suspicious_entries
         /\ ret' = [verified_results |-> v.verified_results, stats |-> v.stats,
                    counted |-> v.counted, fact_checks |-> v.fact_checks]
    /\ Record("verify_batch", [results |-> results, query |-> QEmpty, issues |-> <<>>])

\* resolve_all_suspicious: clear_suspicious_entries
LifeResolve ==
    /\ nops < MaxLife
    /\ \E d \in {ClearSuspiciousEntries(Db)} :
         /\ verified_facts' = d.verified_facts
         /\ suspicious_entries' = d.suspicious_entries
    /\ ret' = NoReturn
    /\ Record("resolve_all_suspicious", [results |-> <<>>, query |-> QEmpty, issues |-> <<>>])

NextLife ==
    \/ \E result \in LifeResults : LifeVerify(result)
    \/ \E results \in LifeBatches : LifeVerifyBatch(results)
    \/ LifeResolve
    \/ DbFails
    \/ DbRecovers

SpecLife == Init /\ [][NextLife]_vars

\* ------------------------------------------------------ the quality monitor

\* _define_quality_criteria: the weight of each criterion, in hundredths
QualityCriteria ==
    "data_completeness" :> 30 @@ "data_consistency" :> 25 @@ "data_accuracy" :> 25
    @@ "data_freshness" :> 20

QualityYearRange == <<2000, CurrentYear + 1>>

QualityAmountRange == <<-1000000, 10000000>>

\* the score from which a check has passed, in millionths
PassMark ==
    "completeness" :> 800000 @@ "consistency" :> 900000 @@ "accuracy" :> 850000
    @@ "freshness" :> 600000

\* datetime.now() - timedelta(days=365), now taken as 3 November of CurrentYear
CutoffDate == <<CurrentYear - 1, 11, 3>>

\* "field in result and result[field]"
Present(result, field) == Has(result, field) /\ Truthy(Get(result, field))

\* k / n in millionths, 0 for no item
Share(k, n) == IF n > 0 THEN (k * One) \div n ELSE 0

QualityCheck(check_type, score) ==
    [check_type |-> check_type, passed |-> score >= PassMark[check_type], score |-> score]

\* the except branch of a check: QualityCheck(check_type, False, 0.0, ...)
FailedCheck(check_type) == [check_type |-> check_type, passed |-> FALSE, score |-> 0]

\* _check_completeness
CheckCompleteness(results) ==
    QualityCheck("completeness",
        Share(Cardinality({i \in 1..Len(results) :
                              Present(results[i], "jahr") /\ Present(results[i], "beschreibung")}),
              Len(results)))

\* _check_consistency raises on a year or an amount that is no number (<= of int
\* and str) and on a category that is no str (.lower())
ConsistencyRaises(result) ==
    \/ Present(result, "jahr") /\ ~IsNumber(Get(result, "jahr"))
    \/ Has(result, "betrag") /\ ~IsNumber(Get(result, "betrag"))
    \/ Present(result, "kategorie") /\ IsNumber(Get(result, "kategorie"))

ItemConsistent(result) ==
    /\ Present(result, "jahr") =>
          /\ QualityYearRange[1] <= Get(result, "jahr").n
          /\ Get(result, "jahr").n <= QualityYearRange[2]
    /\ Has(result, "betrag") =>
          /\ QualityAmountRange[1] <= Get(result, "betrag").n
          /\ Get(result, "betrag").n <= QualityAmountRange[2]

\* _check_consistency
CheckConsistency(results) ==
    IF \E i \in 1..Len(results) : ConsistencyRaises(results[i]) THEN FailedCheck("consistency")
    ELSE QualityCheck("consistency",
             Share(Cardinality({i \in 1..Len(results) : ItemConsistent(results[i])}), Len(results)))

\* re.match of required_patterns[field] on str(value):
\* year ^(19|20)\d{2}$, amount ^-?\d+(\.\d{2})?$
RequiredPatternMatches(field, v) ==
    IF field = "year"
    THEN IF v.t = "int" THEN 1900 <= v.n /\ v.n <= 2099
         ELSE IF v.t = "float" THEN FALSE
         ELSE /\ Len(v.s) = 1 /\ v.s[1] \in DOMAIN NumeralValue /\ Len(v.s[1]) = 4
              /\ 1900 <= NumeralValue[v.s[1]] /\ NumeralValue[v.s[1]] <= 2099
    ELSE IF v.t = "int" THEN TRUE
         ELSE IF v.t = "float" THEN FALSE
         ELSE Len(v.s) = 1 /\ v.s[1] \in DOMAIN NumeralValue

ItemAccurate(result) ==
    /\ \A field \in {"year", "amount"} :
          Has(result, field) => RequiredPatternMatches(field, Get(result, field))
    /\ Present(result, "beschreibung") => TextLen(Get(result, "beschreibung")) >= 3

\* _check_accuracy; .strip() raises on a description that is a number
CheckAccuracy(results) ==
    IF \E i \in 1..Len(results) :
          Present(results[i], "beschreibung") /\ IsNumber(Get(results[i], "beschreibung"))
    THEN FailedCheck("accuracy")
    ELSE QualityCheck("accuracy",
             Share(Cardinality({i \in 1..Len(results) : ItemAccurate(results[i])}), Len(results)))

DateFields == <<"datum", "created_at", "last_modified">>

NoDate == [found |-> FALSE, date |-> <<0, 0, 0>>]

\* the loop over date_fields of _check_freshness from field k on: the first
\* filled field ends the search unless it is a str that does not parse
RECURSIVE ItemDate(_, _)
ItemDate(result, k) ==
    IF k > Len(DateFields) THEN NoDate
    ELSE IF ~Present(result, DateFields[k]) THEN ItemDate(result, k + 1)
    ELSE IF IsNumber(Get(result, DateFields[k])) THEN NoDate
    ELSE IF IsoYear(Get(result, DateFields[k])) = 0 THEN ItemDate(result, k + 1)
    ELSE [found |-> TRUE,
          date |-> [i \in 1..3 |-> NumeralValue[Get(result, DateFields[k]).s[i]]]]

\* item_date >= cutoff_date, the date at midnight and the cutoff during the day
OnOrAfterCutoff(d) ==
    \/ d[1] > CutoffDate[1]
    \/ d[1] = CutoffDate[1] /\ d[2] > CutoffDate[2]
    \/ d[1] = CutoffDate[1] /\ d[2] = CutoffDate[2] /\ d[3] > CutoffDate[3]

\* _check_freshness
CheckFreshness(results) ==
    LET dated == {i \in 1..Len(results) : ItemDate(results[i], 1).found}
        recent == {i \in dated : OnOrAfterCutoff(ItemDate(results[i], 1).date)}
    IN  QualityCheck("freshness",
            IF Cardinality(dated) > 0 THEN Share(Cardinality(recent), Cardinality(dated))
            ELSE 800000)

\* the four checks of check_results; on a batch that is no list every check
\* raises and returns its failed check
QualityChecks(batch) ==
    IF ~batch.sized
    THEN <<FailedCheck("completeness"), FailedCheck("consistency"), FailedCheck("accuracy"),
           FailedCheck("freshness")>>
    ELSE <<CheckCompleteness(batch.items), CheckConsistency(batch.items),
           CheckAccuracy(batch.items), CheckFreshness(batch.items)>>

\* _calculate_total_quality with the weight looked up under "data_" + check_type
WeightedMean(quality_checks) ==
    LET Weight(k) == QualityCriteria["data_" \o quality_checks[k].check_type]
        total_score == Weight(1) * quality_checks[1].score + Weight(2) * quality_checks[2].score
                       + Weight(3) * quality_checks[3].score + Weight(4) * quality_checks[4].score
        total_weight == Weight(1) + Weight(2) + Weight(3) + Weight(4)
    IN  total_score \div total_weight

\* the loop of _calculate_total_quality: <<total_score, total_weight>> after
\* the first k checks
RECURSIVE Accumulated(_, _)
Accumulated(quality_checks, k) ==
    IF k = 0 THEN <<0, 0>>
    ELSE LET before == Accumulated(quality_checks, k - 1)
             check == quality_checks[k]
         IN  IF check.check_type \in DOMAIN QualityCriteria
             THEN <<before[1] + check.score * QualityCriteria[check.check_type],
                    before[2] + QualityCriteria[check.check_type]>>
             ELSE before

\* _calculate_total_quality
CalculateTotalQuality(quality_checks) ==
    LET sums == Accumulated(quality_checks, Len(quality_checks))
    IN  IF sums[2] > 0 THEN sums[1] \div sums[2] ELSE 0

\* check_results: what it returns and the history it leaves; the timestamps
\* of the entries are left out
CheckResultsOutcome(batch, history) ==
    IF batch.sized /\ Len(batch.items) = 0 THEN [total_score |-> 0, history |-> history]
    ELSE IF ~batch.sized THEN [total_score |-> 500000, history |-> history]
    ELSE LET quality_checks == QualityChecks(batch)
             total_score == CalculateTotalQuality(quality_checks)
         IN  [total_score |-> total_score,
              history |-> Append(history, [total_score |-> total_score, checks |-> quality_checks,
                                           result_count |-> Len(batch.items)])]

\* self.checks_history[-10:]
RecentN == 10

\* a report over the whole history
RecentChecksAll(history) == history

RecentChecks(history) ==
    IF Len(history) <= RecentN THEN history
    ELSE SubSeq(history, Len(history) - RecentN + 1, Len(history))

\* the check types that did not pass, check by check
RECURSIVE AllIssues(_)
AllIssues(recent_checks) ==
    IF Len(recent_checks) = 0 THEN <<>>
    ELSE LET failed == SelectSeq(recent_checks[1].checks, LAMBDA c : ~c.passed)
         IN  [k \in 1..Len(failed) |-> failed[k].check_type] \o AllIssues(Tail(recent_checks))

IssueCount(all_issues, issue) == Cardinality({i \in 1..Len(all_issues) : all_issues[i] = issue})

\* the keys of issue_counts, in the order they were first counted
RECURSIVE IssueTypes(_)
IssueTypes(all_issues) ==
    IF Len(all_issues) = 0 THEN <<>>
    ELSE LET before == IssueTypes(SubSeq(all_issues, 1, Len(all_issues) - 1))
         IN  IF \E k \in 1..Len(before) : before[k] = all_issues[Len(all_issues)] THEN before
             ELSE Append(before, all_issues[Len(all_issues)])

\* sorted(issue_counts.items(), key=count, reverse=True): stable, so equal
\* counts keep the order of the dict
RECURSIVE SortedIssues(_, _)
SortedIssues(types, all_issues) ==
    IF Len(types) = 0 THEN <<>>
    ELSE LET before == SortedIssues(SubSeq(types, 1, Len(types) - 1), all_issues)
             count == IssueCount(all_issues, types[Len(types)])
             p == Cardinality({k \in 1..Len(before) : before[k][2] >= count})
         IN  SubSeq(before, 1, p) \o <<<<types[Len(types)], count>>>>
             \o SubSeq(before, p + 1, Len(before))

IssueAdvice ==
    "completeness" :> "Vollständigkeit der Datenfelder verbessern"
    @@ "consistency" :> "Datenkonsistenz-Regeln überprüfen"
    @@ "accuracy" :> "Datenvalidierung bei der Eingabe verstärken"
    @@ "freshness" :> "Häufigere Datenaktualisierung einrichten"

\* _generate_recommendations
GenerateRecommendations(avg_quality, types, all_issues) ==
    LET general == IF avg_quality < 600000
                   THEN <<"Datenqualität ist kritisch - sofortige Überprüfung erforderlich">>
                   ELSE IF avg_quality < 800000 THEN <<"Datenqualität sollte verbessert werden">>
                   ELSE <<>>
        frequent == SelectSeq(types, LAMBDA t : IssueCount(all_issues, t) >= 3)
        specific == [k \in 1..Len(frequent) |-> IssueAdvice[frequent[k]]]
    IN  IF Len(general \o specific) = 0 THEN <<"Datenqualität ist zufriedenstellend">>
        ELSE general \o specific

RECURSIVE SumScores(_)
SumScores(checks) ==
    IF Len(checks) = 0 THEN 0 ELSE checks[1].total_score + SumScores(Tail(checks))

Scoring(checks, lo, hi) ==
    Cardinality({k \in 1..Len(checks) : lo <= checks[k].total_score /\ checks[k].total_score < hi})

\* get_quality_report
QualityReport(history) ==
    IF Len(history) = 0 THEN [message |-> "Noch keine Qualitätsprüfungen durchgeführt"]
    ELSE LET recent_checks == RecentChecks(history)
             avg_quality == SumScores(recent_checks) \div Len(recent_checks)
             all_issues == AllIssues(recent_checks)
             sorted == SortedIssues(IssueTypes(all_issues), all_issues)
         IN  [summary |->
                 [average_quality |-> avg_quality,
                  trend |-> IF Len(recent_checks) >= 2
                            THEN recent_checks[Len(recent_checks)].total_score
                                 - recent_checks[1].total_score
                            ELSE 0,
                  total_checks |-> Len(history),
                  recent_checks |-> Len(recent_checks)],
              quality_breakdown |->
                 [excellent |-> Scoring(recent_checks, 900000, One + 1),
                  good |-> Scoring(recent_checks, 700000, 900000),
                  fair |-> Scoring(recent_checks, 500000, 700000),
                  poor |-> Scoring(recent_checks, 0, 500000)],
              common_issues |-> SubSeq(sorted, 1, IF Len(sorted) < 5 THEN Len(sorted) ELSE 5),
              recommendations |->
                 GenerateRecommendations(avg_quality, IssueTypes(all_issues), all_issues)]

\* a dated entry of this year
RRecent == RGemeinde \o << F("datum", IsoDate(<<"2026", "05", "01">>)) >>

\* fields named as the patterns of data_accuracy name them
RAmount ==
    << F("jahr", IntV(2023)), F("beschreibung", StrV(<<"Strassen", "Gemeinde">>)),
       F("year", IntV(2023)), F("amount", FloatV(25000)) >>

QualityResults == {RGemeinde, RDatum, RRecent, RFuture, RTyped, RNoDesc, RCeiling, RAmount}

\* a batch as check_results gets it; the batch that is no list is a number
ListOf(items) == [sized |-> TRUE, items |-> items]

NoList == [sized |-> FALSE, items |-> <<>>]

QualityBatches ==
    {ListOf(items) : items \in UNION {[1..n -> QualityResults] : n \in 0..MaxBatch}} \cup {NoList}

\* the batches of a long run: an empty one, one that passes every check, one
\* that fails two
HistoryBatches == {ListOf(<<>>), ListOf(<<RGemeinde>>), ListOf(<<RFuture>>)}

InitQuality ==
    /\ known_facts_db = "none"
    /\ verified_facts = <<>>
    /\ suspicious_entries = <<>>
    /\ op = "init"
    /\ args = [results |-> <<>>, query |-> QEmpty, issues |-> <<>>]
    /\ ret = NoReturn
    /\ pre = [conn |-> "none", verified_facts |-> <<>>, suspicious_entries |-> <<>>]
    /\ nops = 0
    /\ checks_history = <<>>
    /\ conc = NoConc

Monitored(name, result) ==
    /\ nops < MaxChecks
    /\ ret' = [NoReturn EXCEPT !.fact_checks = <<result>>]
    /\ op' = name
    /\ nops' = nops + 1
    /\ UNCHANGED <<known_facts_db, verified_facts, suspicious_entries, pre, conc>>

\* check_results
CheckResults(batch) ==
    /\ \E outcome \in {CheckResultsOutcome(batch, checks_history)} :
          /\ Monitored("check_results", [total_score |-> outcome.total_score])
          /\ checks_history' = outcome.history
    /\ args' = [results |-> batch.items, query |-> QEmpty, issues |-> <<>>, sized |-> batch.sized]

\* get_quality_report
GetQualityReport ==
    /\ Monitored("get_quality_report", QualityReport(checks_history))
    /\ UNCHANGED <<args, checks_history>>

\* reset_history
ResetHistory ==
    /\ Monitored("reset_history", [message |-> "reset"])
    /\ checks_history' = <<>>
    /\ UNCHANGED args

\* the first check of a monitor
FirstCheck(batch) == nops = 0 /\ CheckResults(batch)

\* the report after it
FirstReport == nops = 1 /\ GetQualityReport

NextQuality ==
    \/ \E batch \in QualityBatches : FirstCheck(batch)
    \/ FirstReport

SpecQuality == InitQuality /\ [][NextQuality]_vars

\* long runs of checks, reports and resets
NextHistory ==
    \/ \E batch \in HistoryBatches : CheckResults(batch)
    \/ GetQualityReport
    \/ ResetHistory

SpecHistory == InitQuality /\ [][NextHistory]_vars

\* ------------------------------------------------------------- properties

RangeOfSeq(seq) == {seq[i] : i \in 1..Len(seq)}

RemoveAt(seq, i) == SubSeq(seq, 1, i - 1) \o SubSeq(seq, i + 1, Len(seq))

\* a returned element without the verification_stats its first one carries
Plain(seq) == [k \in 1..Len(seq) |-> [result |-> seq[k].result, fact_check |-> seq[k].fact_check]]

\* the inputs of the last batch that were not dropped, by position
KeptPositions ==
    SelectSeq([i \in 1..Len(args.results) |-> i],
              LAMBDA i : ret.fact_checks[i].is_verified \/ ret.fact_checks[i].confidence > 500000)

DroppedPositions ==
    {i \in 1..Len(args.results) :
        ~ret.fact_checks[i].is_verified /\ ret.fact_checks[i].confidence <= 500000}

\* the last dropped input of the batch with the fingerprint h
LastDropped(h) ==
    CHOOSE i \in DroppedPositions :
        /\ CalculateResultHash(args.results[i]) = h
        /\ \A j \in DroppedPositions : CalculateResultHash(args.results[j]) = h => j <= i

\* The returned list is the kept inputs in order, each with its annotation:
\* verified=true, or verified=false with its issues.
KeptAsClaimed ==
    /\ Len(ret.verified_results) = Len(KeptPositions)
    /\ \A k \in 1..Len(KeptPositions) :
          LET i == KeptPositions[k]
              e == ret.verified_results[k]
          IN  /\ e.result = args.results[i]
              /\ e.fact_check.confidence = ret.fact_checks[i].confidence
              /\ IF ret.fact_checks[i].is_verified
                 THEN e.fact_check.verified = TRUE
                 ELSE /\ e.fact_check.verified = FALSE
                      /\ e.fact_check.issues = ret.fact_checks[i].issues

\* Every dropped input has an unresolved entry under its fingerprint whose reason
\* is the issues of the last dropped input with that fingerprint; every other
\* entry is as it was before the batch.
LoggedAsClaimed ==
    /\ \A i \in DroppedPositions :
          LET l == LastDropped(CalculateResultHash(args.results[i]))
          IN  \E row \in RangeOfSeq(suspicious_entries) :
                /\ row.entry_hash = CalculateResultHash(args.results[i])
                /\ row.entry_data = JsonDumps(args.results[l])
                /\ row.suspicion_reason = JoinStr(ret.fact_checks[l].issues, "; ")
                /\ row.resolved = FALSE
    /\ \A row \in RangeOfSeq(suspicious_entries) :
          \/ row \in RangeOfSeq(pre.suspicious_entries)
          \/ \E i \in DroppedPositions : row.entry_hash = CalculateResultHash(args.results[i])
    /\ \A row \in RangeOfSeq(pre.suspicious_entries) :
          \/ row \in RangeOfSeq(suspicious_entries)
          \/ \E i \in DroppedPositions : row.entry_hash = CalculateResultHash(args.results[i])

\* C1 as stated: verify_batch keeps every verified result with verified=true,
\* keeps every other result of confidence > 0.5 with verified=false and its
\* issues, and drops every remaining result, writing a suspicious entry with its
\* issues under its fingerprint; nothing else is kept or logged.
C1_AsStated ==
    op = "verify_batch" => KeptAsClaimed /\ LoggedAsClaimed

\* C1 amended: the three-way split holds for every store; the suspicious entry of
\* a dropped result is written when the Known-Facts Store is connected and
\* working, and otherwise the result is dropped and the store is left as it was.
C1_ThreeWaySplit ==
    op = "verify_batch" =>
        /\ KeptAsClaimed
        /\ IF pre.conn = "ok" THEN LoggedAsClaimed
           ELSE suspicious_entries = pre.suspicious_entries

\* a batch on a working store that kept one result as unverified and dropped another
C1_Witness ==
    /\ op = "verify_batch"
    /\ pre.conn = "ok"
    /\ \E i \in DroppedPositions : ret.fact_checks[i].confidence > 0
    /\ \E k \in 1..Len(ret.verified_results) : ~ret.verified_results[k].fact_check.verified

\* C3: the counts of a batch add up, verified + suspicious + filtered = total,
\* total is the size of the input, and the returned list has verified +
\* suspicious elements; the empty batch returns the empty list and counts nothing.
C3_CountsAddUp ==
    op = "verify_batch" =>
        /\ ret.stats.verified + ret.stats.suspicious + ret.stats.filtered = ret.stats.total
        /\ Len(ret.verified_results) = ret.stats.verified + ret.stats.suspicious
        /\ IF ret.counted THEN ret.stats.total = Len(args.results)
           ELSE Len(args.results) = 0 /\ ret.stats.total = 0

\* a batch with one verified and one filtered result
C3_Witness ==
    /\ op = "verify_batch"
    /\ ret.stats.verified = 1
    /\ ret.stats.filtered = 1

\* C5: a result whose verification raises gets is_verified = false and
\* confidence 0.0 and is dropped, and the other results of the batch get the
\* outcomes and the places in the returned list they get in the batch without it.
C5_FailureIsolated ==
    op = "verify_batch" =>
        \A i \in 1..Len(args.results) :
            Raises(args.results[i]) =>
                LET without == VerifyResults(RemoveAt(args.results, i), args.query, pre)
                IN  /\ ret.fact_checks[i].is_verified = FALSE
                    /\ ret.fact_checks[i].confidence = 0
                    /\ i \in DroppedPositions
                    /\ without.fact_checks = RemoveAt(ret.fact_checks, i)
                    /\ Plain(without.verified_results) = Plain(ret.verified_results)

\* a batch in which one result raised and another was kept
C5_Witness ==
    /\ op = "verify_batch"
    /\ pre.conn = "ok"
    /\ \E i \in 1..Len(args.results) : Raises(args.results[i])
    /\ Len(ret.verified_results) >= 1

\* the six factors of a result, in tenths, and the issues of the five checks
\* that do not read the store
Tenths(failed, factor) == IF failed THEN factor ELSE 10

StoreFreeProduct(result, query) ==
    Tenths(AnalysisOf(result).structural # <<>>, 7)
    * Tenths(AnalysisOf(result).range.issues # <<>>, 6)
    * Tenths(AnalysisOf(result).plausibility.issues # <<>>, 8)
    * Tenths(AnalysisOf(result).pattern # <<>>, 3)
    * Tenths(~RelevanceOf(result, query), 9)

\* C2: for a result that verify processes without internal error, confidence is
\* the product of the six factors (0.7, 0.6, 0.8, 0.3, the consistency factor,
\* 0.9, and 1 for a passed check), and is_verified holds exactly when
\* confidence >= 0.7 and there are at most 2 issues.
C2_ProductAndDecision ==
    (op = "verify" /\ ~Raises(args.results[1])) =>
        LET fc == ret.fact_checks[1]
            consistency == CheckConsistencyWithKnownFacts(args.results[1], pre).confidence
        IN  /\ fc.confidence = StoreFreeProduct(args.results[1], args.query) * consistency
            /\ fc.is_verified <=> (fc.confidence >= 700000 /\ Len(fc.issues) <= 2)

\* a result of confidence 0.72 that is not verified, for its three issues
C2_Witness ==
    /\ op = "verify"
    /\ ~Raises(args.results[1])
    /\ ret.fact_checks[1].confidence >= 700000
    /\ Len(ret.fact_checks[1].issues) > 2
    /\ ~ret.fact_checks[1].is_verified

\* C4: a result whose betrag is above the ceiling of 10,000,000 is never
\* verified, whatever its other fields, the query and the store are; the
\* financial validation of src/ai calls it invalid as well.
C4_CeilingDominates ==
    /\ (/\ op = "verify"
        /\ Has(args.results[1], "betrag")
        /\ IsNumber(Get(args.results[1], "betrag"))
        /\ Get(args.results[1], "betrag").n > 10000000)
          => ~ret.fact_checks[1].is_verified
    /\ (/\ op = "validate_financial_data"
        /\ Has(args.results[1], "betrag")
        /\ IsNumber(Get(args.results[1], "betrag"))
        /\ Get(args.results[1], "betrag").n > 10000000)
          => ~ret.fact_checks[1].is_valid

\* a betrag above the ceiling verified with no other check failing
C4_Witness ==
    /\ op = "verify"
    /\ Has(args.results[1], "betrag")
    /\ IsNumber(Get(args.results[1], "betrag"))
    /\ Get(args.results[1], "betrag").n > 10000000
    /\ ret.fact_checks[1].confidence = 600000

\* C6 as stated: after a verify that returns is_verified = true with
\* confidence >= 0.9, the verified facts of the store hold the result's
\* fingerprint.
C6_AsStated ==
    (/\ op = "verify"
     /\ ret.fact_checks[1].is_verified
     /\ ret.fact_checks[1].confidence >= 900000)
        => \E row \in RangeOfSeq(verified_facts) :
              row.fact_hash = CalculateResultHash(args.results[1])

\* C7: when the store holds a verified fact under the result's fingerprint, the
\* consistency factor of that result is the stored confidence and its issues
\* are those of the other five checks: neither the suspicious entries nor the
\* partial-match heuristic are consulted.
C7_ShortCircuit ==
    (/\ op = "verify"
     /\ pre.conn = "ok"
     /\ ~Raises(args.results[1]))
        => \A row \in RangeOfSeq(pre.verified_facts) :
              row.fact_hash = CalculateResultHash(args.results[1]) =>
                /\ ret.fact_checks[1].confidence =
                      StoreFreeProduct(args.results[1], args.query) * row.confidence
                /\ ret.fact_checks[1].issues =
                      AnalysisOf(args.results[1]).structural
                      \o AnalysisOf(args.results[1]).range.issues
                      \o AnalysisOf(args.results[1]).plausibility.issues
                      \o AnalysisOf(args.results[1]).pattern
                      \o (IF RelevanceOf(args.results[1], args.query) THEN <<>>
                          ELSE <<"Ergebnis nicht relevant fuer Anfrage">>)

\* a verification of a result that has a verified fact and an unresolved
\* suspicious entry under its fingerprint
C7_Witness ==
    /\ op = "verify"
    /\ pre.conn = "ok"
    /\ ~Raises(args.results[1])
    /\ \E row \in RangeOfSeq(pre.verified_facts) :
          row.fact_hash = CalculateResultHash(args.results[1])
    /\ \E row \in RangeOfSeq(pre.suspicious_entries) :
          row.entry_hash = CalculateResultHash(args.results[1]) /\ ~row.resolved

SuspiciousHashes == {suspicious_entries[i].entry_hash : i \in 1..Len(suspicious_entries)}

\* C9: no step removes a fingerprint from the suspicious entries;
\* resolve_all_suspicious keeps every entry and at most sets its resolved flag,
\* which it does set on a working store; and no fingerprint ever has two entries.
C9_NeverShrinks ==
    [][/\ SuspiciousHashes \subseteq SuspiciousHashes'
       /\ (op' = "resolve_all_suspicious" /\ nops' # nops) =>
             /\ Len(suspicious_entries') = Len(suspicious_entries)
             /\ \A i \in 1..Len(suspicious_entries) :
                   suspicious_entries'[i] =
                       [suspicious_entries[i] EXCEPT !.resolved = @ \/ known_facts_db = "ok"]
       /\ \A i, j \in 1..Len(suspicious_entries') :
             suspicious_entries'[i].entry_hash = suspicious_entries'[j].entry_hash => i = j
      ]_vars

\* resolve_all_suspicious on a working store that holds entries: all are kept
\* and resolved
C9_Witness ==
    /\ op = "resolve_all_suspicious"
    /\ pre.conn = "ok"
    /\ pre.suspicious_entries # <<>>
    /\ Len(suspicious_entries) = Len(pre.suspicious_entries)
    /\ \A i \in 1..Len(suspicious_entries) : suspicious_entries[i].resolved

EmptyStore == [conn |-> "ok", verified_facts |-> <<>>, suspicious_entries |-> <<>>]

\* C10 as stated: with an unreachable store a result gets the outcome it gets
\* with a reachable store that holds no entry for its fingerprint.
C10_AsStated ==
    (op = "verify" /\ pre.conn # "ok") =>
        ret.fact_checks[1] =
            VerifySingleResult(args.results[1], args.query, EmptyStore).fact_check

\* Python's == on two field values: an int and a float of equal value are equal
PyEq(v, w) == IF IsNumber(v) /\ IsNumber(w) THEN v.n = w.n ELSE v = w

\* two results agree on the four hashed fields: same presence, same values
Agree(a, b) ==
    \A f \in {"jahr", "kategorie", "beschreibung", "betrag"} :
        /\ Has(a, f) <=> Has(b, f)
        /\ Has(a, f) => PyEq(Get(a, f), Get(b, f))

\* C8 as stated: two results that agree on jahr, kategorie, beschreibung and
\* betrag get the same fingerprint, whatever other fields they carry and in
\* whatever order, and a second call on the same result gives the same string.
C8_AsStated ==
    op = "fingerprint" =>
        /\ ret.fact_checks[1] = ret.fact_checks[3]
        /\ Agree(args.results[1], args.results[2]) => ret.fact_checks[1] = ret.fact_checks[2]

Scored == op = "ai.verify_results" /\ ~ret.fact_checks[1].raised

\* C12: the report of a non-empty batch is labelled by its score alone:
\* 90 to 100 high/excellent, 70 to 89 medium/good, 0 to 69 low/questionable.
C12_LabelCutPoints ==
    (Scored /\ ret.fact_checks[1].total_results > 0) =>
        LET r == ret.fact_checks[1] IN
        /\ r.score \in 0..100
        /\ (r.score >= 90) => (r.confidence = "high" /\ r.data_quality = "excellent")
        /\ (r.score >= 70 /\ r.score < 90) => (r.confidence = "medium" /\ r.data_quality = "good")
        /\ (r.score < 70) => (r.confidence = "low" /\ r.data_quality = "questionable")

\* 9 of 10 results are valid: the score is 90 and the label is high/excellent
C12_Witness ==
    /\ Scored
    /\ ret.fact_checks[1].total_results = 10
    /\ ret.fact_checks[1].score = 90
    /\ ret.fact_checks[1].confidence = "high"

\* C13: for a non-empty batch the score is 100 * verified / total rounded to
\* the nearest integer (2 of 3 gives 67).
C13_AsStated ==
    (Scored /\ ret.fact_checks[1].total_results > 0) =>
        LET r == ret.fact_checks[1]
            d == 100 * r.verified_results - r.score * r.total_results
        IN  2 * d <= r.total_results /\ 2 * d >= 0 - r.total_results

\* C14: the report of an empty batch has score 0 and the label low/no_data,
\* and the call does not fail.
C14_AsStated ==
    (op = "ai.verify_results" /\ Len(args.results) = 0) =>
        /\ ~ret.fact_checks[1].raised
        /\ ret.fact_checks[1].score = 0
        /\ ret.fact_checks[1].confidence = "low"
        /\ ret.fact_checks[1].data_quality = "no_data"

\* C15: verified against the street question on a store that holds nothing, the
\* street repair of 2023 is verified with a confidence of at least 0.7 and has
\* no issues.
C15_AsStated ==
    (op = "verify" /\ args.results = <<RReparatur>> /\ args.query = QStrassen /\ pre = EmptyStore) =>
        /\ ret.fact_checks[1].is_verified
        /\ ret.fact_checks[1].confidence >= VerifiedThreshold
        /\ ret.fact_checks[1].issues = <<>>

\* the positions of {jahr: 2045, betrag: 5.0, beschreibung: 'x'} in the batch
FuturePositions == {i \in 1..Len(args.results) : args.results[i] = RFuture}

FutureRejected ==
    \A i \in FuturePositions :
        /\ ret.fact_checks[i].confidence <= 480000
        /\ ~ret.fact_checks[i].is_verified
        /\ \A k \in 1..Len(ret.verified_results) : ret.verified_results[k].result # RFuture

FutureLogged ==
    \E row \in RangeOfSeq(suspicious_entries) :
        row.entry_hash = CalculateResultHash(RFuture) /\ ~row.resolved

\* C16 as stated: in every batch that holds it, the result of 2045 gets a
\* confidence of at most 0.48, is not verified, is absent from the output, and
\* its fingerprint is logged as an unresolved suspicious entry.
C16_AsStated ==
    (op = "verify_batch" /\ FuturePositions # {}) => FutureRejected /\ FutureLogged

\* C16 amended: the same, with the suspicious entry written when the
\* Known-Facts Store is connected and working, and no entry written otherwise.
C16_FutureRejected ==
    (op = "verify_batch" /\ FuturePositions # {}) =>
        /\ FutureRejected
        /\ IF pre.conn = "ok" THEN FutureLogged
           ELSE suspicious_entries = pre.suspicious_entries

\* a batch on a working store that dropped the result of 2045 after keeping another
C16_Witness ==
    /\ op = "verify_batch"
    /\ pre.conn = "ok"
    /\ Len(args.results) = 2 /\ args.results[2] = RFuture
    /\ Len(ret.verified_results) = 1
    /\ FutureLogged
    /\ ~\E row \in RangeOfSeq(pre.suspicious_entries) : row.entry_hash = CalculateResultHash(RFuture)

\* C17: analyze_query never raises; it returns a structure whose
\* original_query is the input, and after an internal error that structure has
\* the intent general_search, the confidence 0.5, the one-element list [query]
\* as search terms, and an error note.
C17_AsStated ==
    op \in {"analyze_query", "ai.analyze_query"} =>
        LET r == ret.fact_checks[1] IN
        /\ "raised" \notin DOMAIN r
        /\ {"original_query", "intent"} \subseteq DOMAIN r
        /\ r.original_query = args.query
        /\ args.query.t # "str" =>
              /\ {"confidence", "keywords", "error"} \subseteq DOMAIN r
              /\ r.intent = "general_search"
              /\ r.confidence = 50
              /\ r.keywords = <<args.query>>

\* the part of C17 that is about analyze_query of the backend
C17_BackendDegrades ==
    op = "analyze_query" =>
        LET r == ret.fact_checks[1] IN
        /\ {"original_query", "intent", "confidence", "keywords"} \subseteq DOMAIN r
        /\ r.original_query = args.query
        /\ ("error" \in DOMAIN r) = (args.query.t # "str")
        /\ "error" \in DOMAIN r =>
              r.intent = "general_search" /\ r.confidence = 50 /\ r.keywords = <<args.query>>

\* the vocabularies that have a keyword in the text, in the order of priority
MatchingVocabularies(subs) ==
    SelectSeq(<<"financial_search", "document_search", "statistics_search", "protocol_search">>,
              LAMBDA v :
                  \/ v = "financial_search" /\ (UNION {FinanceKeywords[k] : k \in 1..4}) \cap subs # {}
                  \/ v = "document_search" /\ (UNION {DocumentKeywords[k] : k \in 1..4}) \cap subs # {}
                  \/ v = "statistics_search" /\ StatsKeywords \cap subs # {}
                  \/ v = "protocol_search" /\ ProtocolKeywords \cap subs # {})

\* C18: the intent is the first vocabulary, in the order financial, document,
\* statistics, protocol, that has a keyword in the normalized query, however
\* many keywords each vocabulary has there, and general_search when none has;
\* src/ai decides the same way in the order of its own vocabularies.
C18_PriorityAlone ==
    /\ (op = "analyze_query" /\ args.query.t = "str") =>
          LET m == MatchingVocabularies(Substrings(NormalizeQuery(args.query.chars)))
          IN  ret.fact_checks[1].intent = IF Len(m) > 0 THEN m[1] ELSE "general_search"
    /\ (op = "ai.analyze_query" /\ args.query.t = "str") =>
          LET subs == Substrings(LowerChars(args.query.chars))
              first == {k \in 1..5 : AiIntentPatterns[k] \cap subs # {}
                                     /\ \A l \in 1..(k - 1) : AiIntentPatterns[l] \cap subs = {}}
          IN  /\ \A k \in first : ret.fact_checks[1].intent = AiIntentNames[k]
              /\ first = {} => ret.fact_checks[1].intent = "search_general"

\* one finance keyword and keywords of two document lists: financial_search
C18_Witness ==
    /\ op = "analyze_query"
    /\ args.query = StrQ(JoinWords(<<TKosten, TSitzungsbericht>>))
    /\ Indicators(DocumentKeywords, Substrings(NormalizeQuery(args.query.chars))) = 2
    /\ Indicators(FinanceKeywords, Substrings(NormalizeQuery(args.query.chars))) = 1
    /\ ret.fact_checks[1].intent = "financial_search"

\* the numbers of the words of four digits of a text
FourDigitTokens(cs) ==
    {IntOf(w) : w \in {w \in RangeOfSeq(WordRuns(cs)) : Len(w) = 4 /\ DigitRun(w, 1) = 4}}

\* C19: the extracted years hold every token of four digits of the query that
\* lies in 1990..current year + 1, and they hold no token of four digits
\* outside that range and no other number (a year of a relative phrase apart).
C19_AsStated ==
    /\ (op = "analyze_query" /\ args.query.t = "str") =>
          LET cs == NormalizeQuery(args.query.chars)
              years == RangeOfSeq(ExtractYears(cs, Substrings(cs)))
              inside == {y \in FourDigitTokens(cs) : YearFloor <= y /\ y <= CurrentYear + 1}
          IN  /\ inside \subseteq years
              /\ years \subseteq inside \cup RelativeYears(cs, Substrings(cs))
              /\ inside # {} => "year" \in DOMAIN ret.fact_checks[1].entities
    /\ (op = "ai.analyze_query" /\ args.query.t = "str") =>
          LET cs == LowerChars(args.query.chars)
              years == RangeOfSeq(ret.fact_checks[1].years)
              inside == {y \in FourDigitTokens(cs) : YearFloor <= y /\ y <= CurrentYear + 1}
          IN  /\ inside \subseteq years
              /\ years \subseteq inside \cup {CurrentYear - 1, CurrentYear}

\* the value in cents of a parsed amount with up to two decimals
Cents(v) == IF v.exp = 0 THEN v.mant * 100 ELSE IF v.exp = 1 THEN v.mant * 10 ELSE v.mant

\* C20: an amount written with periods between the thousands and a comma
\* before the decimals is parsed to its exact value, by parse_amount and, as a
\* query of its own, by the amount extraction of analyze_query: '10.000,50'
\* gives 10000.50.
C20_ExactAmount ==
    \A row \in AmountTable :
        /\ (op = "ai.parse_amount" /\ args.query = StrQ(row[1])) =>
              /\ ret.fact_checks[1].ok
              /\ ret.fact_checks[1].exp <= 2
              /\ Cents(ret.fact_checks[1]) = row[2]
        /\ (op = "analyze_query" /\ args.query = StrQ(row[1])) =>
              /\ "amount" \in DOMAIN ret.fact_checks[1].entities
              /\ ret.fact_checks[1].entities["amount"].exp <= 2
              /\ Cents(ret.fact_checks[1].entities["amount"]) = row[2]

\* parse_amount was called with '10.000,50' and gave 1,000,050 cents
C20_Witness ==
    /\ op = "ai.parse_amount"
    /\ args.query = StrQ(TAmount)
    /\ ret.fact_checks[1] = [ok |-> TRUE, mant |-> 1000050, exp |-> 2]

\* the outcome verify would have given on the same result and store had the
\* relevance check passed (the empty query is relevant to every result)
RelevantOutcome == VerifySingleResult(args.results[1], QEmpty, pre).fact_check

\* the positions verify_batch would have kept on the same batch and store had
\* every relevance check passed
RelevantKept ==
    LET v == VerifyResults(args.results, QEmpty, pre)
    IN  {i \in 1..Len(args.results) : Tier(v.fact_checks[i]) # "filtered"}

\* C23: relevance is advisory: a result found not relevant gets 0.9 times the
\* confidence it would have as a relevant one and one more issue, and a result
\* that verify_batch would keep as relevant is never dropped for being not
\* relevant.
C23_RelevanceAdvisory ==
    /\ (op = "verify" /\ ~Raises(args.results[1])
        /\ ~RelevanceOf(args.results[1], args.query)) =>
          /\ RelevanceOf(args.results[1], QEmpty)
          /\ 10 * ret.fact_checks[1].confidence = 9 * RelevantOutcome.confidence
          /\ ret.fact_checks[1].issues =
                RelevantOutcome.issues \o <<"Ergebnis nicht relevant fuer Anfrage">>
          /\ Tier(RelevantOutcome) # "filtered" => Tier(ret.fact_checks[1]) # "filtered"
    /\ op = "verify_batch" =>
          \A i \in RelevantKept : i \in RangeOfSeq(KeptPositions)

\* a result not relevant to the query that is kept with confidence 0.504, the
\* least confidence above the threshold: 0.56 as a relevant one
C23_Witness ==
    /\ op = "verify"
    /\ ~RelevanceOf(args.results[1], args.query)
    /\ RelevantOutcome.confidence = 560000
    /\ ret.fact_checks[1].confidence = 504000
    /\ Tier(ret.fact_checks[1]) = "suspicious"

\* jahr or betrag is absent or is no number (a text, coercible or not)
Malformed(result) ==
    \E f \in {"jahr", "betrag"} : ~Has(result, f) \/ ~IsNumber(Get(result, f))

\* C25: a result whose jahr or betrag is absent, wrongly typed or not
\* coercible never makes verify fail internally: its outcome is not the
\* internal-error outcome, its confidence is above 0, and a field that is not
\* coercible is reported as an issue of the structural check.
C25_AsStated ==
    (op = "verify" /\ Malformed(args.results[1])) =>
        /\ ret.fact_checks[1].source # "error"
        /\ ret.fact_checks[1].confidence > 0
        /\ \A k \in 1..Len(CheckDataStructure(args.results[1])) :
              CheckDataStructure(args.results[1])[k] \in RangeOfSeq(ret.fact_checks[1].issues)

\* C27: while the Known-Facts Store is connected and holds no verified fact,
\* every outcome of verify and verify_batch has a confidence of at most 0.8,
\* and no operation writes a verified fact: a store that starts empty stays
\* empty.
C27_StoreStaysEmpty ==
    [][(known_facts_db # "none" /\ verified_facts = <<>>) =>
          /\ verified_facts' = <<>>
          /\ (op' \in {"verify", "verify_batch"} /\ nops' # nops) =>
                \A i \in 1..Len(ret'.fact_checks) :
                    /\ ret'.fact_checks[i].confidence <= 800000
                    /\ ret'.fact_checks[i].confidence < StoreThreshold
      ]_vars

\* a result that passes every check on the empty store: confidence 0.8,
\* verified, and not written through
C27_Witness ==
    /\ op = "verify"
    /\ pre.conn = "ok"
    /\ pre.verified_facts = <<>>
    /\ ret.fact_checks[1].is_verified
    /\ ret.fact_checks[1].confidence = 800000
    /\ verified_facts = <<>>

\* the last operation verified results; the first of them met the store as it
\* was before the operation
Checked == op \in {"verify", "verify_batch"} /\ Len(args.results) > 0

\* the store held an unresolved suspicious entry under the fingerprint of result
\* before the operation
FlaggedBefore(result) ==
    \E row \in RangeOfSeq(pre.suspicious_entries) :
        row.entry_hash = CalculateResultHash(result) /\ ~row.resolved

\* the store held a verified fact under the fingerprint of result before the
\* operation
KnownBefore(result) ==
    \E row \in RangeOfSeq(pre.verified_facts) : row.fact_hash = CalculateResultHash(result)

\* the store holds an unresolved suspicious entry under the fingerprint of result
FlaggedNow(result) ==
    \E row \in RangeOfSeq(suspicious_entries) :
        row.entry_hash = CalculateResultHash(result) /\ ~row.resolved

\* the consistency factor was 0.3, and the result was dropped
DroppedAgain ==
    /\ Tier(ret.fact_checks[1]) = "filtered"
    /\ ~Raises(args.results[1]) =>
          ret.fact_checks[1].confidence = StoreFreeProduct(args.results[1], args.query) * 3

\* C28 as stated: while a result's fingerprint has an unresolved suspicious
\* entry (a drop logged it and resolve_all_suspicious has not run since), every
\* verification of a result with that fingerprint has the consistency factor
\* 0.3 and is dropped again; after resolve_all_suspicious no entry is
\* unresolved; and a new drop of a fingerprint that has an entry leaves the
\* entry unresolved.
C28_AsStated ==
    /\ (Checked /\ FlaggedBefore(args.results[1])) => DroppedAgain
    /\ op = "resolve_all_suspicious" => \A r \in LifeResults : ~FlaggedNow(r)
    /\ op = "verify_batch" =>
          \A i \in DroppedPositions :
              (\E row \in RangeOfSeq(pre.suspicious_entries) :
                  row.entry_hash = CalculateResultHash(args.results[i]))
                  => FlaggedNow(args.results[i])

\* C28 amended: on a working store, a verification of a result whose
\* fingerprint has an unresolved suspicious entry and no verified fact has the
\* consistency factor 0.3 and drops the result; resolve_all_suspicious on a
\* working store leaves no entry unresolved; a result whose fingerprint has no
\* unresolved entry is verified as if the store held no suspicious entries at
\* all; and every drop by verify_batch on a working store leaves an unresolved
\* entry under the fingerprint.
C28_EntryLifeCycle ==
    /\ (Checked /\ pre.conn = "ok"
        /\ FlaggedBefore(args.results[1]) /\ ~KnownBefore(args.results[1])) => DroppedAgain
    /\ (op = "resolve_all_suspicious" /\ pre.conn = "ok") =>
          \A r \in LifeResults : ~FlaggedNow(r)
    /\ (Checked /\ ~FlaggedBefore(args.results[1])) =>
          ret.fact_checks[1] =
              VerifySingleResult(args.results[1], args.query,
                                 [pre EXCEPT !.suspicious_entries = <<>>]).fact_check
    /\ (op = "verify_batch" /\ pre.conn = "ok") =>
          \A i \in DroppedPositions : FlaggedNow(args.results[i])

\* a batch drops, on a working store, a result whose fingerprint had a resolved
\* entry and that differs outside the fingerprinted fields from the result the
\* entry was logged for: the entry is unresolved again
C28_Witness ==
    /\ op = "verify_batch"
    /\ pre.conn = "ok"
    /\ 1 \in DroppedPositions
    /\ \E row \in RangeOfSeq(pre.suspicious_entries) :
          /\ row.entry_hash = CalculateResultHash(args.results[1])
          /\ row.resolved
          /\ row.entry_data # JsonDumps(args.results[1])
    /\ FlaggedNow(args.results[1])

\* the warnings and the errors the validations of verify_single_result produce
\* for one result
ProducedFor(result) ==
    LET fin == IF Has(result, "betrag") THEN ValidateFinancialData(result)
               ELSE [raised |-> FALSE, is_valid |-> TRUE, errors |-> 0, warnings |-> 0]
        tmp == IF Has(result, "datum") \/ Has(result, "jahr") THEN ValidateTemporalData(result)
               ELSE [raised |-> FALSE, is_valid |-> TRUE, warnings |-> 0]
        con == ValidateConsistency(result)
    IN  [warnings |-> fin.warnings + tmp.warnings + con.warnings, errors |-> fin.errors]

\* and for all results of a batch
RECURSIVE ProducedWarnings(_)
ProducedWarnings(results) ==
    IF Len(results) = 0 THEN 0
    ELSE ProducedFor(Head(results)).warnings + ProducedWarnings(Tail(results))

RECURSIVE ProducedErrors(_)
ProducedErrors(results) ==
    IF Len(results) = 0 THEN 0
    ELSE ProducedFor(Head(results)).errors + ProducedErrors(Tail(results))

\* C24: the warnings and the errors of the report are all the warnings and
\* errors produced for the results of the batch, those of the results counted
\* as verified included.
C24_AsStated ==
    Scored =>
        /\ ret.fact_checks[1].warnings = ProducedWarnings(args.results)
        /\ ret.fact_checks[1].errors = ProducedErrors(args.results)

\* what does hold: the report has one error for each result above the ceiling
\* and no warning at all
C24_ErrorsOnly ==
    Scored =>
        /\ ret.fact_checks[1].warnings = 0
        /\ ret.fact_checks[1].errors = ProducedErrors(args.results)
        /\ ret.fact_checks[1].errors =
              ret.fact_checks[1].total_results - ret.fact_checks[1].verified_results

\* C29: a query with a protocol keyword (protokoll, sitzung, beschluss) and
\* with no keyword of the finance or of the statistics vocabulary is
\* interpreted with the intent protocol_search.
C29_AsStated ==
    (op = "analyze_query" /\ args.query.t = "str") =>
        LET subs == Substrings(NormalizeQuery(args.query.chars)) IN
        (/\ ProtocolKeywords \cap subs # {}
         /\ (UNION {FinanceKeywords[k] : k \in 1..4}) \cap subs = {}
         /\ StatsKeywords \cap subs = {})
            => ret.fact_checks[1].intent = "protocol_search"

\* what does hold: every protocol keyword is a document keyword, and no query
\* is interpreted with the intent protocol_search
C29_NeverProtocol ==
    /\ ProtocolKeywords \subseteq UNION {DocumentKeywords[k] : k \in 1..4}
    /\ op = "analyze_query" => ret.fact_checks[1].intent # "protocol_search"


\* C21: interpreting 'Wie viel gab die Gemeinde 2023 für Straßen aus?' yields
\* the years [2023], categories that include 'infrastruktur', and a financial
\* classification: the intent financial_search, or the general intent with
\* the query type financial.
C21_AsStated ==
    /\ (op = "analyze_query" /\ args.query = StrQ(QWieViel)) =>
          LET analysis == ret.fact_checks[1]
          IN  /\ "year" \in DOMAIN analysis.entities
              /\ analysis.entities["year"] \in {2023, <<2023>>}
              /\ "category" \in DOMAIN analysis.entities
              /\ analysis.entities["category"] # "infrastruktur" =>
                    \E k \in 1..3 : /\ k \in DOMAIN analysis.entities["category"]
                                    /\ analysis.entities["category"][k] = "infrastruktur"
              /\ analysis.intent = "financial_search"
    /\ (op = "ai.analyze_query" /\ args.query = StrQ(QWieViel)) =>
          LET analysis == ret.fact_checks[1]
          IN  /\ analysis.years = <<2023>>
              /\ "infrastruktur" \in RangeOfSeq(analysis.categories)
              /\ \/ analysis.intent = "search_financial"
                 \/ analysis.intent = "search_general" /\ analysis.query_type = "financial"

\* the interpreter of src/ai meets C21 in the categories and the classification
C21_AiButTheYears ==
    (op = "ai.analyze_query" /\ args.query = StrQ(QWieViel)) =>
        /\ ret.fact_checks[1].years = <<20>>
        /\ RangeOfSeq(ret.fact_checks[1].categories) = {"infrastruktur"}
        /\ ret.fact_checks[1].intent = "search_general"
        /\ ret.fact_checks[1].query_type = "financial"

\* the interpreter of the backend meets C21 in nothing
C21_BackendMisses ==
    (op = "analyze_query" /\ args.query = StrQ(QWieViel)) =>
        /\ "year" \notin DOMAIN ret.fact_checks[1].entities
        /\ ret.fact_checks[1].entities["category"] = "verwaltung"
        /\ ret.fact_checks[1].intent = "general_search"


\* the queries with a phrase of a range of years, with its two bounds
RangeTable == {<<QBetween, 2020, 2023>>, <<QFromTo, 2019, 2021>>, <<QBackwards, 2023, 2020>>,
               <<QLastYear, 2019, 2021>>}

\* the integers X..Y in rising order, none when Y < X
Inclusive(X, Y) == [k \in 1..(IF Y >= X THEN Y - X + 1 ELSE 0) |-> X + k - 1]

\* the years a backend analysis reports
ReportedYears(analysis) ==
    IF "year" \notin DOMAIN analysis.entities THEN <<>>
    ELSE IF analysis.entities["year"] \in Int THEN <<analysis.entities["year"]>>
    ELSE analysis.entities["year"]

C30_AsStated ==
    (op = "check_results" /\ args.sized /\ Len(args.results) > 0) =>
        /\ Len(checks_history) > 0
        /\ ret.fact_checks[1].total_score = WeightedMean(checks_history[Len(checks_history)].checks)
        /\ checks_history[Len(checks_history)].total_score = ret.fact_checks[1].total_score

\* what check_results does: no check type is a key of the criteria, so no
\* weight is added and the total is 0.0, which is also what is appended
C30_AlwaysZero ==
    (op = "check_results" /\ args.sized /\ Len(args.results) > 0) =>
        /\ \A k \in 1..4 : checks_history[1].checks[k].check_type \notin DOMAIN QualityCriteria
        /\ ret.fact_checks[1].total_score = 0
        /\ checks_history[Len(checks_history)].total_score = 0

\* the entries of the history a report covers, and how often a check failed in them
Window(history) ==
    {k \in 1..Len(history) : k > Len(history) - RecentN}

FailedIn(history, entries, check_type) ==
    Cardinality({<<k, c>> \in entries \X (1..4) :
                    /\ history[k].checks[c].check_type = check_type
                    /\ ~history[k].checks[c].passed})

ReportOverWindow ==
    LET report == ret.fact_checks[1]
        counted == {report.common_issues[k][1] : k \in 1..Len(report.common_issues)}
    IN  /\ report.summary.total_checks = Len(checks_history)
        /\ report.summary.recent_checks = Cardinality(Window(checks_history))
        /\ report.summary.recent_checks <= RecentN
        /\ \A k \in 1..Len(report.common_issues) :
              report.common_issues[k][2] =
                  FailedIn(checks_history, Window(checks_history), report.common_issues[k][1])
        /\ \A check_type \in DOMAIN PassMark :
              check_type \notin counted =>
                  FailedIn(checks_history, Window(checks_history), check_type) = 0

====
